---- MODULE Spec2Model ----
(***************************************************************************)
(* A model of the document-to-report pipeline of brainiac:                 *)
(*   src/services/analysisFramework.ts  DocumentAnalysisFramework          *)
(*   src/services/aiService.ts          AIService                          *)
(*   src/app/(tabs)/analyze.tsx         startAnalysis (the caller)         *)
(*                                                                         *)
(* Strings are sequences of UTF-16 code units (naturals).  Error messages  *)
(* are sequences of string parts, so that "prefix followed by the cause's  *)
(* message" is sequence concatenation.                                     *)
(***************************************************************************)
EXTENDS Integers, Sequences, FiniteSets, TLC

VARIABLES
    \* ---- the shared DocumentAnalysisFramework instance ----
    templates,      \* this.templates, the catalog
    \* ---- one entry per analyzeDocument call (run) ----
    pc,             \* position of the run between two awaits
    doc,            \* the content argument
    provider,       \* the provider argument
    tmpl,           \* configuration.template
    content,        \* preprocessedContent (local of analyzeDocument)
    log,            \* the progress reports seen by the caller, in order
    idx,            \* i, the loop index of performAIAnalysis
    sections,       \* the sections object being built by performAIAnalysis
    sent,           \* the prompt keys for which an HTTP request was issued, in order
    replies,        \* the provider replies received, in order
    raised,         \* the errors raised inside the try block, in order
    thrown,         \* the errors that left analyzeDocument, in order
    outcome,        \* what the call ended with: none, a result or an error
    \* ---- sanitizeContent applied to one input, once and twice ----
    sanPc, sanIn, sanOnce, sanTwice,
    \* ---- AIService.analyzeDocument after the provider returned text ----
    normPc, respText, normOut,
    \* ---- one provider call: callAIProvider / AIService.call...API ----
    dPc,            \* position of the call
    dSite,          \* the class whose call...API methods run
    dProvider,      \* the provider argument
    dResp,          \* the HTTP response the fetch resolves with
    dContacted,     \* the endpoints a request was sent to, in order
    dOut,           \* what the call ended with: text or a thrown error
    dSection,       \* the section performAIAnalysis builds from the text
    \* ---- analyzeSentiment on one text ----
    senPc, senIn, senOut,
    \* ---- extractTopics on one text ----
    topPc, topIn, topOut,
    \* ---- extractEntities on one text ----
    entPc, entIn, entOut,
    \* ---- calculateReadabilityScore on one text ----
    readPc, readIn, readOut,
    \* ---- stages 5 to 8 of analyzeDocument on one preprocessed content ----
    resPc,          \* position between the stages
    resIn,          \* preprocessedContent
    resSecs,        \* aiAnalysis, the sections performAIAnalysis returned
    resOut,         \* the signals computed so far, then the AnalysisResult
    \* ---- one call of a template getter ----
    getPc, getArg, getOut,
    \* ---- stage 1 of analyzeDocument on a document of some file type ----
    prePc,          \* position of the run
    preDoc,         \* the content argument
    preType,        \* metadata.fileType
    preContent,     \* preprocessedContent
    preHanded,      \* the contents handed to the provider calls and the extractors
    \* ---- the analyze screen: one startAnalysis call ----
    scrPc,          \* position of startAnalysis between two awaits
    user,           \* useAuth().user
    document,       \* the picked document
    selectedTemplate,
    apiKey,         \* apiKeys[selectedProvider] || the environment's key
    isAnalyzing,
    analysisProgress,
    analysisResult,
    savedDocumentId,
    reported,       \* how many progress reports analyzeDocument has made
    callOutcome,    \* how the analyzeDocument call ended
    writes,         \* the tables an insert was sent to, in order
    failed,         \* the tables whose insert came back with an error, in order
    modals          \* the titles handed to showError / showSuccess, in order

pipeVars == <<templates, pc, doc, provider, tmpl, content, log, idx, sections,
              sent, replies, raised, thrown, outcome>>
sanVars == <<sanPc, sanIn, sanOnce, sanTwice>>
normVars == <<normPc, respText, normOut>>
dispVars == <<dPc, dSite, dProvider, dResp, dContacted, dOut, dSection>>
senVars == <<senPc, senIn, senOut>>
topVars == <<topPc, topIn, topOut>>
entVars == <<entPc, entIn, entOut>>
readVars == <<readPc, readIn, readOut>>
extractorVars == <<senVars, topVars, entVars, readVars>>
resVars == <<resPc, resIn, resSecs, resOut>>
getVars == <<getPc, getArg, getOut>>
preVars == <<prePc, preDoc, preType, preContent, preHanded>>
scrVars == <<scrPc, user, document, selectedTemplate, apiKey, isAnalyzing, analysisProgress,
             analysisResult, savedDocumentId, reported, callOutcome, writes, failed, modals>>
unitVars == <<resVars, getVars, preVars, scrVars>>
vars == <<pipeVars, sanVars, normVars, dispVars, extractorVars, unitVars>>

-----------------------------------------------------------------------------
(* Code units used by the sanitizer.                                       *)

Backslash == 92
LowerU == 117
Space == 32
Delete == 127

\* [\u0001-\u0008\u000B\u000C\u000E-\u001F\u007F]
ControlChars == (1..8) \cup {11, 12} \cup (14..31) \cup {Delete}

\* the characters the claim about the output names: 0-8, 11, 12, 14-31, 127
ForbiddenChars == {0} \cup ControlChars

\* JavaScript's \s (and the characters trim() strips)
Whitespace == {9, 10, 11, 12, 13, Space, 160, 5760, 8232, 8233, 8239, 8287, 12288, 65279}
                  \cup (8192..8202)

\* [0-9A-Fa-f]
IsHex(c) == c \in (48..57) \cup (65..70) \cup (97..102)

HexVal(c) == IF c \in 48..57 THEN c - 48
             ELSE IF c \in 65..70 THEN c - 55
             ELSE c - 87

\* parseInt(hex, 16) of four hex digits
ParseHex4(h) == 4096 * HexVal(h[1]) + 256 * HexVal(h[2]) + 16 * HexVal(h[3]) + HexVal(h[4])

Drop(s, n) == SubSeq(s, n + 1, Len(s))

\* s.replace(/[set]/g, '')
RemoveChars(s, set) == SelectSeq(s, LAMBDA c : c \notin set)

\* s.replace(/\\u0000/g, ''): the six characters \ u 0 0 0 0, left to right
NulEscape == <<Backslash, LowerU, 48, 48, 48, 48>>

RECURSIVE RemoveNulEscapes(_)
RemoveNulEscapes(s) ==
    IF Len(s) < 6 THEN s
    ELSE IF SubSeq(s, 1, 6) = NulEscape THEN RemoveNulEscapes(Drop(s, 6))
    ELSE <<Head(s)>> \o RemoveNulEscapes(Tail(s))

\* the replacement callback of /\\u([0-9A-Fa-f]{4})/g
DecodedKeepControl(codePoint) == <<codePoint>>

Decoded(codePoint) ==
    IF codePoint = 0 \/ (codePoint >= 1 /\ codePoint <= 31) \/ codePoint = Delete
    THEN <<>>
    ELSE <<codePoint>>

StartsWithEscape(s) ==
    /\ Len(s) >= 6
    /\ s[1] = Backslash
    /\ s[2] = LowerU
    /\ \A k \in 3..6 : IsHex(s[k])

\* s.replace(/\\u([0-9A-Fa-f]{4})/g, callback): matches are found left to right
\* in the input; the replacement text is not scanned again
RECURSIVE DecodeEscapes(_)
DecodeEscapes(s) ==
    IF s = <<>> THEN <<>>
    ELSE IF StartsWithEscape(s)
         THEN Decoded(ParseHex4(SubSeq(s, 3, 6))) \o DecodeEscapes(Drop(s, 6))
         ELSE <<Head(s)>> \o DecodeEscapes(Tail(s))

\* s.replace(/\s+/g, ' ')
RECURSIVE CollapseWhitespace(_)
CollapseWhitespace(s) ==
    IF s = <<>> THEN <<>>
    ELSE IF Head(s) \in Whitespace
         THEN IF Len(s) >= 2 /\ s[2] \in Whitespace
              THEN CollapseWhitespace(Tail(s))
              ELSE <<Space>> \o CollapseWhitespace(Tail(s))
         ELSE <<Head(s)>> \o CollapseWhitespace(Tail(s))

RECURSIVE TrimLeft(_)
TrimLeft(s) == IF s # <<>> /\ Head(s) \in Whitespace THEN TrimLeft(Tail(s)) ELSE s

RECURSIVE TrimRight(_)
TrimRight(s) ==
    IF s # <<>> /\ s[Len(s)] \in Whitespace THEN TrimRight(SubSeq(s, 1, Len(s) - 1)) ELSE s

\* String.prototype.trim
Trim(s) == TrimRight(TrimLeft(s))

\* a missing (undefined) string argument: no string holds the code unit -1
Undefined == <<-1>>

\* DocumentAnalysisFramework.sanitizeContent
SanitizeContent(s) ==
    IF s = Undefined \/ s = <<>> THEN <<>>
    ELSE Trim(CollapseWhitespace(DecodeEscapes(RemoveNulEscapes(
             RemoveChars(RemoveChars(s, {0}), ControlChars)))))

-----------------------------------------------------------------------------
(* The sanitizer on its own: inputs are concatenations of at most          *)
(* MaxTokens pieces of text.                                               *)

MaxTokens == 4

SanTokens ==
    { <<Backslash, LowerU>>,        \* \u
      <<LowerU>>,                   \* u
      <<48, 48, 53, 67>>,           \* 005C  (the backslash)
      <<48, 48, 52, 49>>,           \* 0041  (A)
      <<48, 48, 48, 48>>,           \* 0000
      <<48, 48, 49, 102>>,          \* 001f  (a control character)
      <<48, 48, 55, 70>>,           \* 007F
      <<1>>,                        \* a literal control character
      <<0>>,                        \* a literal NUL
      <<Space>> }

RECURSIVE Concat(_)
Concat(ts) == IF ts = <<>> THEN <<>> ELSE Head(ts) \o Concat(Tail(ts))

SanInputs == { Concat(ts) : ts \in UNION { [1..n -> SanTokens] : n \in 0..MaxTokens } }

SanIdle ==
    /\ sanPc = "off"
    /\ sanIn = <<>>
    /\ sanOnce = <<>>
    /\ sanTwice = <<>>

SanInit ==
    /\ sanPc = "input"
    /\ sanIn \in SanInputs
    /\ sanOnce = <<>>
    /\ sanTwice = <<>>

\* out = sanitizeContent(in)
SanitizeOnce ==
    /\ sanPc = "input"
    /\ sanOnce' = SanitizeContent(sanIn)
    /\ sanPc' = "once"
    /\ UNCHANGED <<sanIn, sanTwice, pipeVars, normVars, dispVars, extractorVars, unitVars>>

\* out2 = sanitizeContent(out)
SanitizeTwice ==
    /\ sanPc = "once"
    /\ sanTwice' = SanitizeContent(sanOnce)
    /\ sanPc' = "twice"
    /\ UNCHANGED <<sanIn, sanOnce, pipeVars, normVars, dispVars, extractorVars, unitVars>>

SanNext == SanitizeOnce \/ SanitizeTwice

-----------------------------------------------------------------------------
(* The template catalog and the per-call inputs.                           *)

Runs == {1, 2}

\* Object.keys of every catalog template's prompts object, all of them strings
StringPrompts ==
    << [key |-> "summary", isString |-> TRUE],
       [key |-> "insights", isString |-> TRUE],
       [key |-> "recommendations", isString |-> TRUE],
       [key |-> "technical", isString |-> TRUE] >>

Template(id, category) == [id |-> id, category |-> category, prompts |-> StringPrompts]

\* private templates: AnalysisTemplate[]
Catalog ==
    << Template("business-report", "business"),
       Template("meeting-summary", "business"),
       Template("project-proposal", "business"),
       Template("market-analysis", "business"),
       Template("academic-research", "academic"),
       Template("book-summary", "education"),
       Template("course-material", "education"),
       Template("literature-review", "academic"),
       Template("personal-goals", "personal"),
       Template("product-review", "personal"),
       Template("travel-guide", "personal"),
       Template("financial-analysis", "financial"),
       Template("investment-report", "financial"),
       Template("marketing-campaign", "marketing"),
       Template("content-strategy", "marketing"),
       Template("medical-report", "medical"),
       Template("clinical-trial", "medical"),
       Template("legal-document", "legal"),
       Template("contract-review", "legal"),
       Template("technical-specification", "technical"),
       Template("api-documentation", "technical"),
       Template("software-review", "technical"),
       Template("creative-writing", "creative"),
       Template("film-script", "creative") >>

Providers == {"deepseek", "gemini"}

\* the documents handed to analyzeDocument
Docs ==
    { <<>>,                                     \* empty
      <<Space, 9>>,                             \* whitespace only
      <<1, 0>>,                                 \* control characters only
      <<Backslash, LowerU, 48, 48, 48, 49>>,    \* the escape sequence of a control character
      <<65, 1, Space, Space, 66>>,              \* text
      <<67, 46>> }                              \* other text

\* what a provider call can end with: text, a success without
\* choices[0].message.content, a non-success HTTP response, a success of
\* another shape (no choices array)
Reply(kind, text, errorMessage) ==
    [kind |-> kind, text |-> text, status |-> IF kind = "http" THEN 401 ELSE 200,
     statusText |-> IF kind = "http" THEN "Unauthorized" ELSE "OK",
     errorMessage |-> errorMessage, message |-> "none", json |-> TRUE]

Replies ==
    { Reply("text", <<79, 75, 1>>, "none"),
      Reply("missing", Undefined, "none"),
      Reply("http", Undefined, "API key not valid"),
      Reply("shape", Undefined, "none") }

-----------------------------------------------------------------------------
(* Errors: a thrown value, with its message as a sequence of parts.        *)

Error(message) == [isError |-> TRUE, message |-> message]

\* analysisFramework.ts:530
InputError == Error(<<"Document content is empty or contains only invalid characters">>)

\* callDeepSeekAPI: if (!response.ok) throw ...
DeepSeekError(rep) == Error(<<"DeepSeek API error: ", rep.statusText>>)

\* a body field that is there and truthy ("none": the body has no such field)
Given(field) == field # "none" /\ field # ""

\* `HTTP ${response.status}`
HttpStatus(rep) == "HTTP " \o ToString(rep.status)

\* callGeminiAPI: the message of a non-success response
GeminiErrorMessage(rep) ==
    IF rep.json
    THEN IF Given(rep.errorMessage) THEN rep.errorMessage
         ELSE IF Given(rep.message) THEN rep.message
         ELSE IF rep.statusText # "" THEN rep.statusText
         ELSE HttpStatus(rep)
    ELSE IF rep.statusText # "" THEN rep.statusText ELSE HttpStatus(rep)

GeminiError(rep) == Error(<<"Gemini API error: ", GeminiErrorMessage(rep)>>)

\* data.choices[0].message.content / data.candidates[0].content.parts[0].text
\* of a body without these arrays
ShapeError == Error(<<"Cannot read properties of undefined">>)

\* callAIProvider: does the call throw, and what
ProviderThrowsOnShapeOnly(rep) == rep.kind = "shape"

ProviderThrows(rep) == rep.kind \in {"http", "shape"}

ProviderError(prov, rep) ==
    IF rep.kind = "shape" THEN ShapeError
    ELSE IF prov = "deepseek" THEN DeepSeekError(rep)
    ELSE GeminiError(rep)

\* the catch block of analyzeDocument
RethrowUnwrapped(error) == error

CatchAndRethrow(error) ==
    Error(<<"Analysis failed: ">> \o (IF error.isError THEN error.message ELSE <<"Unknown error">>))

-----------------------------------------------------------------------------
(* Helpers of the pipeline.                                                *)

RECURSIVE CountRuns(_)
\* the number of maximal whitespace runs of a trimmed string
CountRuns(s) ==
    IF s = <<>> THEN 0
    ELSE IF Head(s) \in Whitespace /\ (Len(s) = 1 \/ s[2] \notin Whitespace)
         THEN 1 + CountRuns(Tail(s))
         ELSE CountRuns(Tail(s))

\* countWords: text.trim().split(/\s+/).length
CountWords(text) == CountRuns(Trim(text)) + 1

\* preprocessDocument for the file types without a format-specific step
PreprocessDocument(text) == Trim(CollapseWhitespace(text))

\* the section object of performAIAnalysis (confidence in hundredths)
MakeSection(key, sectionResult) ==
    LET sanitizedResult == SanitizeContent(sectionResult)
    IN  [key |-> key, content |-> sanitizedResult, confidence |-> 85,
         word_count |-> CountWords(sanitizedResult)]

\* sections[key] = section, on an object that keeps insertion order
SetSectionInFront(secs, section) == <<section>> \o secs

SetSection(secs, section) ==
    IF \E k \in 1..Len(secs) : secs[k].key = section.key
    THEN [k \in 1..Len(secs) |-> IF secs[k].key = section.key THEN section ELSE secs[k]]
    ELSE Append(secs, section)

\* the first index from i on whose prompt is a string (the loop skips the others)
RECURSIVE NextStringIdx(_, _)
NextStringIdx(prompts, i) ==
    IF i >= Len(prompts) THEN Len(prompts)
    ELSE IF prompts[i + 1].isString THEN i
    ELSE NextStringIdx(prompts, i + 1)

Report(stage, progress) == [stage |-> stage, progress |-> progress]

\* the progress callback handed to performAIAnalysis: 40 + ((i / n) * 100) * 0.4
LoopProgressUnscaled(i, n) == 40 + (100 * i) \div n

LoopProgress(i, n) == 40 + (40 * i) \div n

NoOutcome ==
    [kind |-> "none", message |-> <<>>, sections |-> <<>>, word_count |-> 0, analysed |-> <<>>]

\* the AnalysisResult assembled by stage 8
Result(secs, text) ==
    [kind |-> "result", message |-> <<>>, sections |-> secs, word_count |-> CountWords(text),
     analysed |-> text]

Failure(error) ==
    [kind |-> "error", message |-> error.message, sections |-> <<>>, word_count |-> 0,
     analysed |-> <<>>]

\* the body of the fetch call: the endpoint and the prompt with the document
Request(prov, key, text) == [endpoint |-> prov, key |-> key, body |-> text]

-----------------------------------------------------------------------------
(* analyzeDocument, one action per stretch of code between two awaits.     *)

PipeIdle ==
    /\ templates = Catalog
    /\ pc = [r \in Runs |-> "off"]
    /\ doc = [r \in Runs |-> <<>>]
    /\ provider = [r \in Runs |-> "deepseek"]
    /\ tmpl = [r \in Runs |-> Catalog[1]]
    /\ content = [r \in Runs |-> <<>>]
    /\ log = [r \in Runs |-> <<>>]
    /\ idx = [r \in Runs |-> 0]
    /\ sections = [r \in Runs |-> <<>>]
    /\ sent = [r \in Runs |-> <<>>]
    /\ replies = [r \in Runs |-> <<>>]
    /\ raised = [r \in Runs |-> <<>>]
    /\ thrown = [r \in Runs |-> <<>>]
    /\ outcome = [r \in Runs |-> NoOutcome]

\* the templates the callers select
TemplateChoices == {Catalog[1]}

PipeInit ==
    /\ templates = Catalog
    /\ pc = [r \in Runs |-> "idle"]
    /\ doc \in [Runs -> Docs]
    /\ provider \in [Runs -> Providers]
    /\ tmpl \in [Runs -> TemplateChoices]
    /\ content = [r \in Runs |-> <<>>]
    /\ log = [r \in Runs |-> <<>>]
    /\ idx = [r \in Runs |-> 0]
    /\ sections = [r \in Runs |-> <<>>]
    /\ sent = [r \in Runs |-> <<>>]
    /\ replies = [r \in Runs |-> <<>>]
    /\ raised = [r \in Runs |-> <<>>]
    /\ thrown = [r \in Runs |-> <<>>]
    /\ outcome = [r \in Runs |-> NoOutcome]

\* templates that carry custom prompts (custom?: string[]), declared last or first
CustomTemplates ==
    { [id |-> "custom-last", category |-> "business",
       prompts |-> Append(StringPrompts, [key |-> "custom", isString |-> FALSE])],
      [id |-> "custom-first", category |-> "business",
       prompts |-> <<[key |-> "custom", isString |-> FALSE]>> \o StringPrompts] }

\* the configurations a caller of analyzeDocument can hand in
TemplateInputs == {Catalog[1], Catalog[5]} \cup CustomTemplates

\* one call; the second run is never started
PipeInitSingle ==
    /\ templates = Catalog
    /\ pc = [r \in Runs |-> IF r = 1 THEN "idle" ELSE "off"]
    /\ doc \in { f \in [Runs -> Docs] : f[2] = <<>> }
    /\ provider \in { f \in [Runs -> Providers] : f[2] = "deepseek" }
    /\ tmpl \in { f \in [Runs -> TemplateInputs] : f[2] = Catalog[1] }
    /\ content = [r \in Runs |-> <<>>]
    /\ log = [r \in Runs |-> <<>>]
    /\ idx = [r \in Runs |-> 0]
    /\ sections = [r \in Runs |-> <<>>]
    /\ sent = [r \in Runs |-> <<>>]
    /\ replies = [r \in Runs |-> <<>>]
    /\ raised = [r \in Runs |-> <<>>]
    /\ thrown = [r \in Runs |-> <<>>]
    /\ outcome = [r \in Runs |-> NoOutcome]

Progress(r, stage, progress) == [log EXCEPT ![r] = Append(@, Report(stage, progress))]

\* startAnalysis: the caller reports init and calls analyzeDocument
StartAnalysis(r) ==
    /\ pc[r] = "idle"
    /\ log' = Progress(r, "init", 0)
    /\ pc' = [pc EXCEPT ![r] = "called"]
    /\ UNCHANGED <<templates, doc, provider, tmpl, content, idx, sections, sent,
                   replies, raised, thrown, outcome, sanVars, normVars, dispVars, extractorVars, unitVars>>

\* an error raised inside the try block: the catch block rethrows it, no
\* result is returned
Throw(r, error) ==
    /\ raised' = [raised EXCEPT ![r] = Append(@, error)]
    /\ thrown' = [thrown EXCEPT ![r] = Append(@, CatchAndRethrow(error))]
    /\ outcome' = [outcome EXCEPT ![r] = Failure(CatchAndRethrow(error))]
    /\ pc' = [pc EXCEPT ![r] = "failed"]

\* if (!sanitizedContent.trim())
IsEmptyNever(sanitizedContent) == FALSE

IsEmpty(sanitizedContent) == Trim(sanitizedContent) = <<>>

\* stage 1: sanitize, reject empty content, preprocess
PreprocessStage(r) ==
    /\ pc[r] = "called"
    /\ log' = Progress(r, "preprocessing", 5)
    /\ LET sanitizedContent == SanitizeContent(doc[r])
       IN  IF IsEmpty(sanitizedContent)
           THEN /\ Throw(r, InputError)
                /\ UNCHANGED content
           ELSE /\ content' = [content EXCEPT ![r] = PreprocessDocument(sanitizedContent)]
                /\ pc' = [pc EXCEPT ![r] = "metadata"]
                /\ UNCHANGED <<raised, thrown, outcome>>
    /\ UNCHANGED <<templates, doc, provider, tmpl, idx, sections, sent, replies,
                   sanVars, normVars, dispVars, extractorVars, unitVars>>

\* what a stage that only reports and computes leaves alone
StageFrame ==
    UNCHANGED <<templates, doc, provider, tmpl, content, idx, sections, sent,
                replies, raised, thrown, outcome, sanVars, normVars, dispVars, extractorVars, unitVars>>

\* stage 2: extractMetadata
MetadataStageSilent(r) ==
    /\ pc[r] = "metadata"
    /\ log' = log
    /\ pc' = [pc EXCEPT ![r] = "structure"]
    /\ StageFrame

MetadataStage(r) ==
    /\ pc[r] = "metadata"
    /\ log' = Progress(r, "metadata", 15)
    /\ pc' = [pc EXCEPT ![r] = "structure"]
    /\ StageFrame

\* stage 3: analyzeStructure
StructureStage(r) ==
    /\ pc[r] = "structure"
    /\ log' = Progress(r, "structure", 25)
    /\ pc' = [pc EXCEPT ![r] = "ai"]
    /\ StageFrame

\* const sections: any = {} is a local of performAIAnalysis, one per call
StoreSectionsShared(r, secs) == [q \in Runs |-> secs]

StoreSections(r, secs) == [sections EXCEPT ![r] = secs]

\* the loop of performAIAnalysis from index i on, up to its next await: the
\* fetch of the next string prompt, or the return to analyzeDocument
IssueAllAtOnce(r, i, secs, lg) ==
    LET prompts == tmpl[r].prompts
        n == Len(prompts)
        rest == SelectSeq(SubSeq(prompts, i + 1, n), LAMBDA p : p.isString)
    IN  /\ sections' = StoreSections(r, secs)
        /\ idx' = [idx EXCEPT ![r] = i]
        /\ log' = lg
        /\ IF i < n
           THEN /\ sent' = [sent EXCEPT ![r] = @ \o
                               [k \in 1..Len(rest) |-> Request(provider[r], rest[k].key, content[r])]]
                /\ pc' = [pc EXCEPT ![r] = "await"]
           ELSE /\ sent' = sent
                /\ pc' = [pc EXCEPT ![r] = "entities"]

ContinueLoop(r, i, secs, lg) ==
    LET prompts == tmpl[r].prompts
        n == Len(prompts)
        j == NextStringIdx(prompts, i)
    IN  /\ sections' = StoreSections(r, secs)
        /\ idx' = [idx EXCEPT ![r] = j]
        /\ IF j < n
           THEN /\ log' = [lg EXCEPT ![r] = Append(@, Report("ai_analysis", LoopProgress(j, n)))]
                /\ sent' = [sent EXCEPT ![r] =
                               Append(@, Request(provider[r], prompts[j + 1].key, content[r]))]
                /\ pc' = [pc EXCEPT ![r] = "await"]
           ELSE /\ log' = lg
                /\ sent' = sent
                /\ pc' = [pc EXCEPT ![r] = "entities"]

\* stage 4: report, enter performAIAnalysis and run it up to the first fetch
AIStage(r) ==
    /\ pc[r] = "ai"
    /\ ContinueLoop(r, 0, <<>>, Progress(r, "ai_analysis", 40))
    /\ UNCHANGED <<templates, doc, provider, tmpl, content, replies, raised, thrown,
                   outcome, sanVars, normVars, dispVars, extractorVars, unitVars>>

\* a provider call that threw: nothing catches it before analyzeDocument's
\* catch block, the loop is left
RetryAfterFailure(r, error) ==
    /\ sent' = [sent EXCEPT ![r] = Append(@, sent[r][Len(sent[r])])]
    /\ UNCHANGED <<pc, raised, thrown, outcome, sections, idx, log>>

AfterFailure(r, error) ==
    /\ Throw(r, error)
    /\ UNCHANGED <<sections, idx, log, sent>>

\* the fetch of the pending provider call settles
ProviderReply(r) ==
    /\ pc[r] = "await"
    /\ Len(replies[r]) < Len(sent[r])
    /\ \E rep \in Replies :
          /\ replies' = [replies EXCEPT ![r] = Append(@, rep)]
          /\ IF ProviderThrows(rep)
             THEN AfterFailure(r, ProviderError(provider[r], rep))
             ELSE /\ ContinueLoop(r, idx[r] + 1,
                                  SetSection(sections[r],
                                             MakeSection(tmpl[r].prompts[idx[r] + 1].key, rep.text)),
                                  log)
                  /\ UNCHANGED <<raised, thrown, outcome>>
    /\ UNCHANGED <<templates, doc, provider, tmpl, content, sanVars, normVars, dispVars, extractorVars, unitVars>>

\* stage 5: extractEntities, extractTopics
EntitiesStage(r) ==
    /\ pc[r] = "entities"
    /\ log' = Progress(r, "entities", 80)
    /\ pc' = [pc EXCEPT ![r] = "sentiment"]
    /\ StageFrame

\* stage 6: analyzeSentiment
SentimentStage(r) ==
    /\ pc[r] = "sentiment"
    /\ log' = Progress(r, "sentiment", 85)
    /\ pc' = [pc EXCEPT ![r] = "visualizations"]
    /\ StageFrame

\* stage 7: generateVisualizations
VisualizationsStage(r) ==
    /\ pc[r] = "visualizations"
    /\ log' = Progress(r, "visualizations", 90)
    /\ pc' = [pc EXCEPT ![r] = "compilation"]
    /\ StageFrame

\* stage 8: assemble the result, report complete, return
CompilationStage(r) ==
    /\ pc[r] = "compilation"
    /\ log' = [log EXCEPT ![r] = @ \o <<Report("compilation", 95), Report("complete", 100)>>]
    /\ outcome' = [outcome EXCEPT ![r] = Result(sections[r], content[r])]
    /\ pc' = [pc EXCEPT ![r] = "done"]
    /\ UNCHANGED <<templates, doc, provider, tmpl, content, idx, sections, sent,
                   replies, raised, thrown, sanVars, normVars, dispVars, extractorVars, unitVars>>

PipeNext ==
    \E r \in Runs :
        \/ StartAnalysis(r)
        \/ PreprocessStage(r)
        \/ MetadataStage(r)
        \/ StructureStage(r)
        \/ AIStage(r)
        \/ ProviderReply(r)
        \/ EntitiesStage(r)
        \/ SentimentStage(r)
        \/ VisualizationsStage(r)
        \/ CompilationStage(r)


-----------------------------------------------------------------------------
(* AIService.analyzeDocument after the provider returned its text.  A      *)
(* response text is a sequence of lexical tokens: the braces, colon and    *)
(* comma, quoted strings, a number, the literal null and bare words.       *)

LB == <<"{", "">>
RB == <<"}", "">>
COLON == <<":", "">>
COMMA == <<",", "">>
NUM == <<"num", "7">>
NULLTOK == <<"null", "null">>
WORD == <<"word", "Here is the analysis">>
Str(c) == <<"str", c>>

\* the fields of AIAnalysisResult
Fields == {"summary", "insights", "recommendations", "technical", "fullReport"}

\* JavaScript values: strings (a text), numbers, null, undefined
StringOf(text) == [type |-> "string", text |-> text]
Lit(s) == StringOf(<<<<"word", s>>>>)
ContentOf(c) == StringOf(IF c = "" THEN <<>> ELSE <<<<"word", c>>>>)
NumberVal == [type |-> "number", text |-> <<NUM>>]
NullVal == [type |-> "null", text |-> <<>>]
UndefinedVal == [type |-> "undefined", text |-> <<>>]

\* the value a scalar token denotes
TokenValue(tok) ==
    IF tok[1] = "str" THEN ContentOf(tok[2])
    ELSE IF tok[1] = "num" THEN NumberVal
    ELSE NullVal

IsScalarTok(tok) == tok[1] \in {"str", "num", "null"}

\* member (, member)* with member = string : scalar
RECURSIVE IsMemberList(_)
IsMemberList(toks) ==
    /\ Len(toks) >= 3
    /\ toks[1][1] = "str"
    /\ toks[2] = COLON
    /\ IsScalarTok(toks[3])
    /\ \/ Len(toks) = 3
       \/ /\ Len(toks) >= 4
          /\ toks[4] = COMMA
          /\ IsMemberList(Drop(toks, 4))

IsJsonObject(toks) ==
    /\ Len(toks) >= 2
    /\ toks[1] = LB
    /\ toks[Len(toks)] = RB
    /\ \/ Len(toks) = 2
       \/ IsMemberList(SubSeq(toks, 2, Len(toks) - 1))

IsJsonScalar(toks) == Len(toks) = 1 /\ IsScalarTok(toks[1])

\* JSON.parse succeeds
IsJson(toks) == IsJsonObject(toks) \/ IsJsonScalar(toks)

\* parsed[field] of a parsed object: the last member of that name
RECURSIVE MemberValue(_, _, _)
MemberValue(toks, field, found) ==
    IF Len(toks) < 3 THEN found
    ELSE MemberValue(Drop(toks, 4), field,
                     IF toks[1] = Str(field) THEN TokenValue(toks[3]) ELSE found)

\* parsed.field; on null the access throws
Property(toks, field) ==
    IF IsJsonObject(toks)
    THEN MemberValue(SubSeq(toks, 2, Len(toks) - 1), field, UndefinedVal)
    ELSE UndefinedVal

Truthy(v) == (v.type = "string" /\ v.text # <<>>) \/ v.type = "number"

\* a || b
OrFirst(a, b) == a

Or(a, b) == IF Truthy(a) THEN a ELSE b

\* the number of characters of a token and of a text
TokLen(tok) ==
    IF tok[1] = "str" THEN 2 + (IF tok[2] = "" THEN 0 ELSE 11)
    ELSE IF tok[1] = "word" THEN 20
    ELSE IF tok[1] = "null" THEN 4
    ELSE 1

InsightsFallbackLength == 500

\* response.substring(0, n): the whole text when it is not longer than n
RECURSIVE Substring(_, _)
Substring(text, n) ==
    IF text = <<>> \/ TokLen(Head(text)) > n THEN <<>>
    ELSE <<Head(text)>> \o Substring(Tail(text), n - TokLen(Head(text)))

\* lower case of the key names of the model
Lower(c) == IF c = "SUMMARY" THEN "summary" ELSE IF c = "fullReport" THEN "fullreport" ELSE c

\* extractSection: the first match of /"section"\s*:\s*"([^"]*)"/i, or null
RECURSIVE ExtractSection(_, _)
ExtractSection(text, section) ==
    IF Len(text) < 3 THEN NullVal
    ELSE IF /\ text[1][1] = "str"
            /\ Lower(text[1][2]) = Lower(section)
            /\ text[2] = COLON
            /\ text[3][1] = "str"
         THEN ContentOf(text[3][2])
         ELSE ExtractSection(Tail(text), section)

\* a response that is no string: choices[0].message.content was undefined
UndefinedText == <<<<"undefined", "">>>>

\* the try block throws: JSON.parse on text that is no JSON, or the property
\* access on a parsed null
TryThrows(text) == ~IsJson(text) \/ text = <<NULLTOK>>

\* the catch block throws: text.match of extractSection on undefined
CatchThrows(text) == text = UndefinedText

\* the object built in the try block
ParsedAnalysis(text) ==
    [summary |-> Or(Property(text, "summary"), Lit("No summary available")),
     insights |-> Or(Property(text, "insights"), Lit("No insights available")),
     recommendations |-> Or(Property(text, "recommendations"), Lit("No recommendations available")),
     technical |-> Or(Property(text, "technical"), Lit("No technical details available")),
     fullReport |-> Or(Property(text, "fullReport"), StringOf(text))]

\* the object built in the catch block
FallbackWithoutExtraction(text) ==
    [summary |-> Lit("Analysis completed successfully"),
     insights |-> StringOf(Substring(text, InsightsFallbackLength)),
     recommendations |-> Lit("See full report for recommendations"),
     technical |-> Lit("Technical analysis included in full report"),
     fullReport |-> StringOf(text)]

FallbackAnalysis(text) ==
    [summary |-> Or(ExtractSection(text, "summary"), Lit("Analysis completed successfully")),
     insights |-> Or(ExtractSection(text, "insights"),
                     StringOf(Substring(text, InsightsFallbackLength))),
     recommendations |-> Or(ExtractSection(text, "recommendations"),
                            Lit("See full report for recommendations")),
     technical |-> Or(ExtractSection(text, "technical"),
                      Lit("Technical analysis included in full report")),
     fullReport |-> StringOf(text)]

NoFields == [f \in Fields |-> UndefinedVal]

\* lines 120-146: what the call returns, or that an error left it
Normalize(text) ==
    IF ~TryThrows(text) THEN [threw |-> FALSE, analysis |-> ParsedAnalysis(text)]
    ELSE IF ~CatchThrows(text) THEN [threw |-> FALSE, analysis |-> FallbackAnalysis(text)]
    ELSE [threw |-> TRUE, analysis |-> NoFields]

MaxMembers == 2

MemberKeys == Fields \cup {"SUMMARY"}

Members ==
    { <<Str(k), COLON, v>> : k \in MemberKeys, v \in {Str("the value"), Str(""), NUM, NULLTOK} }
        \cup { <<WORD>>, <<NULLTOK>>, <<NUM>>, <<Str("the value")>> }

RECURSIVE Join(_)
Join(ms) ==
    IF ms = <<>> THEN <<>>
    ELSE IF Len(ms) = 1 THEN ms[1]
    ELSE ms[1] \o <<COMMA>> \o Join(Tail(ms))

\* the provider texts: a list of members, with or without the braces
NormTexts ==
    { open \o Join(ms) \o close :
        open \in {<<>>, <<LB>>}, close \in {<<>>, <<RB>>},
        ms \in UNION { [1..n -> Members] : n \in 0..MaxMembers } }

NoAnalysis == [threw |-> FALSE, analysis |-> NoFields]

\* response = await this.call...API(...)
NormInit ==
    /\ normPc = "text"
    /\ respText \in NormTexts \cup {UndefinedText}
    /\ normOut = NoAnalysis

\* analysis = the normalized response
NormalizeResponse ==
    /\ normPc = "text"
    /\ normOut' = Normalize(respText)
    /\ normPc' = "done"
    /\ UNCHANGED <<respText, pipeVars, sanVars, dispVars, extractorVars, unitVars>>

\* return analysis
ReturnAnalysis ==
    /\ normPc = "done"
    /\ normPc' = "returned"
    /\ UNCHANGED <<respText, normOut, pipeVars, sanVars, dispVars, extractorVars, unitVars>>

NormNext == NormalizeResponse \/ ReturnAnalysis

-----------------------------------------------------------------------------
(* One provider call, at either call site: callAIProvider of the framework *)
(* (followed by the section performAIAnalysis builds) and the call...API   *)
(* methods of AIService.                                                   *)

Sites == {"framework", "aiService"}

\* an HTTP response: kind "http" is a non-success status, the other kinds are
\* successes (text, a content field that is undefined, a body of another shape)
Response(kind, text, status, statusText, errorMessage, message, json) ==
    [kind |-> kind, text |-> text, status |-> status, statusText |-> statusText,
     errorMessage |-> errorMessage, message |-> message, json |-> json]

Responses ==
    { Response("text", <<79, 75, 1>>, 200, st, "none", "none", TRUE) : st \in {"OK", ""} }
        \cup { Response("missing", Undefined, 200, "OK", "none", "none", TRUE),
               Response("shape", Undefined, 200, "OK", "none", "none", TRUE) }
        \cup { Response("http", Undefined, status, st, em, m, TRUE) :
                 status \in {401, 500}, st \in {"", "Unauthorized"},
                 em \in {"none", "", "API key not valid"}, m \in {"none", "quota exceeded"} }
        \cup { Response("http", Undefined, status, st, "none", "none", FALSE) :
                 status \in {401, 500}, st \in {"", "Unauthorized"} }

\* the URL handed to fetch
Endpoint(site, prov) ==
    IF prov = "deepseek" THEN "https://api.deepseek.com/v1/chat/completions"
    ELSE IF site = "framework"
         THEN "https://generativelanguage.googleapis.com/v1beta/models/gemini-2.5-flash:generateContent"
         ELSE "https://generativelanguage.googleapis.com/v1beta/models/gemini-1.5-flash:generateContent"

\* AIService.callDeepSeekAPI / callGeminiAPI: if (!response.ok) throw ...
AiServiceError(prov, rep) ==
    IF rep.kind = "shape" THEN ShapeError
    ELSE IF prov = "deepseek" THEN Error(<<"DeepSeek API error: ", rep.statusText>>)
    ELSE Error(<<"Gemini API error: ", rep.statusText>>)

\* the error a call throws, per call site
CallError(site, prov, rep) ==
    IF site = "framework" THEN ProviderError(prov, rep) ELSE AiServiceError(prov, rep)

NoError == [isError |-> FALSE, message |-> <<>>]

NoCallResult == [threw |-> FALSE, text |-> Undefined, error |-> NoError]

NoSection == [key |-> "none", content |-> <<>>, confidence |-> 0, word_count |-> 0]

DispIdle ==
    /\ dPc = "off"
    /\ dSite = "framework"
    /\ dProvider = "deepseek"
    /\ dResp = Response("text", <<>>, 200, "OK", "none", "none", TRUE)
    /\ dContacted = <<>>
    /\ dOut = NoCallResult
    /\ dSection = NoSection

DispInit ==
    /\ dPc = "call"
    /\ dSite \in Sites
    /\ dProvider \in Providers
    /\ dResp \in Responses
    /\ dContacted = <<>>
    /\ dOut = NoCallResult
    /\ dSection = NoSection

dispRest == <<pipeVars, sanVars, normVars, extractorVars, unitVars>>

\* if (provider === 'deepseek') ... else ...: the fetch of the chosen method
SendRequest ==
    /\ dPc = "call"
    /\ dContacted' = Append(dContacted, Endpoint(dSite, dProvider))
    /\ dPc' = "fetch"
    /\ UNCHANGED <<dSite, dProvider, dResp, dOut, dSection, dispRest>>

\* the fetch resolves: the method throws or returns the text of the body
ReceiveResponse ==
    /\ dPc = "fetch"
    /\ IF ProviderThrows(dResp)
       THEN /\ dOut' = [threw |-> TRUE, text |-> Undefined,
                        error |-> CallError(dSite, dProvider, dResp)]
            /\ dPc' = "threw"
       ELSE /\ dOut' = [threw |-> FALSE, text |-> dResp.text, error |-> NoError]
            /\ dPc' = "returned"
    /\ UNCHANGED <<dSite, dProvider, dResp, dContacted, dSection, dispRest>>

\* performAIAnalysis: sections[key] = { ... } from the returned text
BuildSection ==
    /\ dPc = "returned"
    /\ dSite = "framework"
    /\ dSection' = MakeSection("summary", dOut.text)
    /\ dPc' = "section"
    /\ UNCHANGED <<dSite, dProvider, dResp, dContacted, dOut, dispRest>>

DispNext == SendRequest \/ ReceiveResponse \/ BuildSection

-----------------------------------------------------------------------------
(* analyzeSentiment.  Ratios are exact fractions [num, den].               *)

Upper == 65..90

\* String.prototype.toLowerCase on the letters A-Z
ToLowerCase(s) == [k \in 1..Len(s) |-> IF s[k] \in Upper THEN s[k] + 32 ELSE s[k]]

\* the index of the first whitespace character of s, 0 when there is none
RECURSIVE FirstWhitespace(_, _)
FirstWhitespace(s, k) ==
    IF k > Len(s) THEN 0
    ELSE IF s[k] \in Whitespace THEN k
    ELSE FirstWhitespace(s, k + 1)

\* s.split(/\s+/)
RECURSIVE SplitWhitespace(_)
SplitWhitespace(s) ==
    LET k == FirstWhitespace(s, 1)
    IN  IF k = 0 THEN <<s>>
        ELSE <<SubSeq(s, 1, k - 1)>> \o SplitWhitespace(TrimLeft(Drop(s, k)))

\* word === pw
IncludesWholeWord(word, pw) == word = pw

\* word.includes(pw)
Includes(word, pw) ==
    \E i \in 0..(Len(word) - Len(pw)) : SubSeq(word, i + 1, i + Len(pw)) = pw

PositiveWords ==
    << <<103, 111, 111, 100>>,                                         \* good
       <<103, 114, 101, 97, 116>>,                                     \* great
       <<101, 120, 99, 101, 108, 108, 101, 110, 116>>,                 \* excellent
       <<112, 111, 115, 105, 116, 105, 118, 101>>,                     \* positive
       <<115, 117, 99, 99, 101, 115, 115>>,                            \* success
       <<98, 101, 110, 101, 102, 105, 116>>,                           \* benefit
       <<97, 100, 118, 97, 110, 116, 97, 103, 101>> >>                 \* advantage

NegativeWords ==
    << <<98, 97, 100>>,                                                \* bad
       <<112, 111, 111, 114>>,                                         \* poor
       <<110, 101, 103, 97, 116, 105, 118, 101>>,                      \* negative
       <<112, 114, 111, 98, 108, 101, 109>>,                           \* problem
       <<105, 115, 115, 117, 101>>,                                    \* issue
       <<114, 105, 115, 107>>,                                         \* risk
       <<100, 105, 115, 97, 100, 118, 97, 110, 116, 97, 103, 101>> >>  \* disadvantage

\* lexicon.some(w => word.includes(w))
MatchesLexicon(word, lexicon) == \E k \in 1..Len(lexicon) : Includes(word, lexicon[k])

\* the number of words that match the lexicon
RECURSIVE CountMatches(_, _)
CountMatches(words, lexicon) ==
    IF words = <<>> THEN 0
    ELSE (IF MatchesLexicon(Head(words), lexicon) THEN 1 ELSE 0) + CountMatches(Tail(words), lexicon)

Ratio(num, den) == [num |-> num, den |-> den]

RatioSub(a, b) == Ratio(a.num * b.den - b.num * a.den, a.den * b.den)

\* a > b for fractions with positive denominators
RatioGreater(a, b) == a.num * b.den > b.num * a.den

RatioMax(a, b) == IF RatioGreater(b, a) THEN b ELSE a

\* total > 0 ? count / total : 0.5
CountRatioOrZero(count, total) == IF total > 0 THEN Ratio(count, total) ELSE Ratio(0, 1)

CountRatio(count, total) == IF total > 0 THEN Ratio(count, total) ELSE Ratio(1, 2)

\* 1 - positiveRatio - negativeRatio
NeutralRatioOfPositive(positiveRatio, negativeRatio) == RatioSub(Ratio(1, 1), positiveRatio)

NeutralRatio(positiveRatio, negativeRatio) ==
    RatioSub(RatioSub(Ratio(1, 1), positiveRatio), negativeRatio)

\* the label chosen by the if / else if chain
OverallSentimentInclusive(positiveRatio, negativeRatio) ==
    IF ~RatioGreater(Ratio(6, 10), positiveRatio) THEN "positive"
    ELSE IF ~RatioGreater(Ratio(6, 10), negativeRatio) THEN "negative"
    ELSE IF RatioGreater(positiveRatio, Ratio(3, 10)) /\ RatioGreater(negativeRatio, Ratio(3, 10))
         THEN "mixed"
    ELSE "neutral"

OverallSentiment(positiveRatio, negativeRatio) ==
    IF RatioGreater(positiveRatio, Ratio(6, 10)) THEN "positive"
    ELSE IF RatioGreater(negativeRatio, Ratio(6, 10)) THEN "negative"
    ELSE IF RatioGreater(positiveRatio, Ratio(3, 10)) /\ RatioGreater(negativeRatio, Ratio(3, 10))
         THEN "mixed"
    ELSE "neutral"

EmotionalTone(overallSentiment) ==
    IF overallSentiment = "positive" THEN <<"optimistic">>
    ELSE IF overallSentiment = "negative" THEN <<"concerned">>
    ELSE <<"neutral">>

\* DocumentAnalysisFramework.analyzeSentiment
AnalyzeSentiment(text) ==
    LET words == SplitWhitespace(ToLowerCase(text))
        positiveCount == CountMatches(words, PositiveWords)
        negativeCount == CountMatches(words, NegativeWords)
        total == positiveCount + negativeCount
        positiveRatio == CountRatio(positiveCount, total)
        negativeRatio == CountRatio(negativeCount, total)
        neutralRatio == NeutralRatio(positiveRatio, negativeRatio)
        overallSentiment == OverallSentiment(positiveRatio, negativeRatio)
    IN  [overall_sentiment |-> overallSentiment,
         confidence |-> RatioMax(RatioMax(positiveRatio, negativeRatio), neutralRatio),
         emotional_tone |-> EmotionalTone(overallSentiment),
         sentiment_distribution |->
             [positive |-> positiveRatio, negative |-> negativeRatio, neutral |-> neutralRatio]]

MaxSenWords == 4

SenVocabulary ==
    { <<103, 111, 111, 100>>,                                     \* good
      <<71, 114, 101, 97, 116>>,                                  \* Great
      <<98, 97, 100>>,                                            \* bad
      <<114, 105, 115, 107, 115, 46>>,                            \* risks.
      <<100, 105, 115, 97, 100, 118, 97, 110, 116, 97, 103, 101>>,\* disadvantage
      <<116, 104, 101>> }                                         \* the

\* "The project was a great success with excellent results. However, there were some risks."
ProjectDocument ==
    <<84, 104, 101, 32, 112, 114, 111, 106, 101, 99, 116, 32, 119, 97, 115, 32, 97, 32, 103,
      114, 101, 97, 116, 32, 115, 117, 99, 99, 101, 115, 115, 32, 119, 105, 116, 104, 32, 101,
      120, 99, 101, 108, 108, 101, 110, 116, 32, 114, 101, 115, 117, 108, 116, 115, 46, 32, 72,
      111, 119, 101, 118, 101, 114, 44, 32, 116, 104, 101, 114, 101, 32, 119, 101, 114, 101,
      32, 115, 111, 109, 101, 32, 114, 105, 115, 107, 115, 46>>

\* words.join(' ')
RECURSIVE JoinWords(_)
JoinWords(ws) ==
    IF ws = <<>> THEN <<>>
    ELSE IF Len(ws) = 1 THEN ws[1]
    ELSE ws[1] \o <<Space>> \o JoinWords(Tail(ws))

SenInputs ==
    { JoinWords(ws) : ws \in UNION { [1..n -> SenVocabulary] : n \in 0..MaxSenWords } }
        \cup {ProjectDocument}

NoSentiment ==
    [overall_sentiment |-> "none", confidence |-> Ratio(0, 1), emotional_tone |-> <<>>,
     sentiment_distribution |->
         [positive |-> Ratio(0, 1), negative |-> Ratio(0, 1), neutral |-> Ratio(0, 1)]]

SenIdle ==
    /\ senPc = "off"
    /\ senIn = <<>>
    /\ senOut = NoSentiment

SenInit ==
    /\ senPc = "input"
    /\ senIn \in SenInputs
    /\ senOut = NoSentiment

senRest == <<pipeVars, sanVars, normVars, dispVars, topVars, entVars, readVars, unitVars>>

\* sentiment = await this.analyzeSentiment(content)
SentimentAnalysis ==
    /\ senPc = "input"
    /\ senOut' = AnalyzeSentiment(senIn)
    /\ senPc' = "done"
    /\ UNCHANGED <<senIn, senRest>>

\* sentiment_analysis: sentiment, in the result
ReturnSentiment ==
    /\ senPc = "done"
    /\ senPc' = "returned"
    /\ UNCHANGED <<senIn, senOut, senRest>>

SenNext == SentimentAnalysis \/ ReturnSentiment

-----------------------------------------------------------------------------
(* extractTopics.  wordCount is a plain object: its entries are kept as a  *)
(* sequence in the order Object.entries lists them.                        *)

Digits == 48..57

\* \w after toLowerCase: [a-z0-9_]
WordChars == (97..122) \cup Digits \cup {95}

\* the length of the run of characters of set at the start of s
RECURSIVE RunLength(_, _)
RunLength(s, set) ==
    IF s = <<>> \/ Head(s) \notin set THEN 0 ELSE 1 + RunLength(Tail(s), set)

\* s.match(/\b\w+\b/g) || []: the maximal runs of word characters
RECURSIVE MatchWords(_)
MatchWords(s) ==
    IF s = <<>> THEN <<>>
    ELSE IF Head(s) \in WordChars
         THEN LET n == RunLength(s, WordChars)
              IN  <<SubSeq(s, 1, n)>> \o MatchWords(Drop(s, n))
         ELSE MatchWords(Tail(s))

\* property values of wordCount: a number, or the string that + 1 makes of
\* the inherited Object.prototype.constructor (n: how many times 1 was appended)
Number(n) == [isNumber |-> TRUE, n |-> n]
Concatenated(n) == [isNumber |-> FALSE, n |-> n]

ConstructorKey == <<99, 111, 110, 115, 116, 114, 117, 99, 116, 111, 114>>
ProtoKey == <<95, 95, 112, 114, 111, 116, 111, 95, 95>>

\* 4294967294, the largest array index, as digits
MaxIndexDigits == <<52, 50, 57, 52, 57, 54, 55, 50, 57, 52>>

\* a <= b for digit strings of the same length
RECURSIVE DigitsLeq(_, _)
DigitsLeq(a, b) ==
    IF a = <<>> THEN TRUE
    ELSE IF Head(a) # Head(b) THEN Head(a) < Head(b)
    ELSE DigitsLeq(Tail(a), Tail(b))

\* an integer-like key: Object.entries lists these first, in ascending order
IsArrayIndex(key) ==
    /\ key # <<>>
    /\ \A k \in 1..Len(key) : key[k] \in Digits
    /\ Len(key) = 1 \/ key[1] # 48
    /\ Len(key) < 10 \/ (Len(key) = 10 /\ DigitsLeq(key, MaxIndexDigits))

IndexLess(a, b) == Len(a) < Len(b) \/ (Len(a) = Len(b) /\ a # b /\ DigitsLeq(a, b))

HasKey(entries, key) == \E k \in 1..Len(entries) : entries[k].key = key

\* wordCount[word]
GetValue(entries, key) ==
    entries[CHOOSE k \in 1..Len(entries) : entries[k].key = key].value

\* the position a new key takes in the order of Object.entries
InsertPosition(entries, key) ==
    IF IsArrayIndex(key)
    THEN Cardinality({ k \in 1..Len(entries) :
                         IsArrayIndex(entries[k].key) /\ IndexLess(entries[k].key, key) }) + 1
    ELSE Len(entries) + 1

\* wordCount[word] = value
SetValue(entries, key, value) ==
    IF HasKey(entries, key)
    THEN [k \in 1..Len(entries) |->
             IF entries[k].key = key THEN [key |-> key, value |-> value] ELSE entries[k]]
    ELSE LET p == InsertPosition(entries, key)
         IN  SubSeq(entries, 1, p - 1) \o <<[key |-> key, value |-> value]>>
                 \o SubSeq(entries, p, Len(entries))

\* (wordCount[word] || 0) + 1
Incremented(entries, word) ==
    IF HasKey(entries, word)
    THEN LET v == GetValue(entries, word)
         IN  IF v.isNumber THEN Number(v.n + 1) ELSE Concatenated(v.n + 1)
    ELSE IF word = ConstructorKey THEN Concatenated(1)
    ELSE Number(1)

\* words.forEach(word => { if (word.length > 3) wordCount[word] = ... }); an
\* assignment to __proto__ of a value that is no object changes nothing
RECURSIVE CountFrequencies(_, _)
CountFrequencies(words, entries) ==
    IF words = <<>> THEN entries
    ELSE LET word == Head(words)
         IN  IF Len(word) > 3 /\ word # ProtoKey
             THEN CountFrequencies(Tail(words), SetValue(entries, word, Incremented(entries, word)))
             ELSE CountFrequencies(Tail(words), entries)

\* e placed behind the entries whose frequency is not smaller (a stable sort)
InsertSorted(sorted, e) ==
    LET p == Cardinality({ k \in 1..Len(sorted) : sorted[k].value.n >= e.value.n })
    IN  SubSeq(sorted, 1, p) \o <<e>> \o SubSeq(sorted, p + 1, Len(sorted))

RECURSIVE StableSortDescending(_, _)
StableSortDescending(entries, sorted) ==
    IF entries = <<>> THEN sorted
    ELSE StableSortDescending(Tail(entries), InsertSorted(sorted, Head(entries)))

\* .sort(([,a], [,b]) => b - a): with a frequency that is no number the
\* comparator yields NaN and the order is whatever the engine's sort leaves
SortOutcomes(entries) ==
    IF \A k \in 1..Len(entries) : entries[k].value.isNumber
    THEN {StableSortDescending(entries, <<>>)}
    ELSE { [k \in 1..Len(entries) |-> entries[p[k]]] : p \in Permutations(1..Len(entries)) }

\* .slice(0, 10)
TopTen(sorted) == SubSeq(sorted, 1, IF Len(sorted) < 10 THEN Len(sorted) ELSE 10)

\* frequency / words.length
Relevance(frequency, total) ==
    IF frequency.isNumber THEN [isNumber |-> TRUE, num |-> frequency.n, den |-> total]
    ELSE [isNumber |-> FALSE, num |-> 0, den |-> 1]

\* sortedWords.map(([word, frequency]) => ({ ... }))
TopicResults(sortedWords, total) ==
    [k \in 1..Len(sortedWords) |->
        [topic |-> sortedWords[k].key,
         relevance |-> Relevance(sortedWords[k].value, total),
         keywords |-> <<sortedWords[k].key>>,
         frequency |-> sortedWords[k].value]]

\* DocumentAnalysisFramework.extractTopics: the results the call can return
ExtractTopics(text) ==
    LET words == MatchWords(ToLowerCase(text))
    IN  { TopicResults(TopTen(sorted), Len(words)) :
            sorted \in SortOutcomes(CountFrequencies(words, <<>>)) }

MaxTopicWords == 4
MaxExtraWords == 2

TopVocabulary ==
    { <<100, 97, 116, 97>>,                                     \* data
      <<68, 97, 116, 97, 46>>,                                  \* Data.
      <<99, 97, 116>>,                                          \* cat
      <<112, 108, 97, 110>>,                                    \* plan
      <<50, 48, 50, 52>>,                                       \* 2024
      <<99, 111, 110, 115, 116, 114, 117, 99, 116, 111, 114>>,  \* constructor
      <<95, 95, 112, 114, 111, 116, 111, 95, 95>> }             \* __proto__

\* "alpha bravo charlie delta echo foxtrot golf hotel india juliet kilo"
ElevenWords ==
    <<97, 108, 112, 104, 97, 32, 98, 114, 97, 118, 111, 32, 99, 104, 97, 114, 108, 105, 101,
      32, 100, 101, 108, 116, 97, 32, 101, 99, 104, 111, 32, 102, 111, 120, 116, 114, 111, 116,
      32, 103, 111, 108, 102, 32, 104, 111, 116, 101, 108, 32, 105, 110, 100, 105, 97, 32, 106,
      117, 108, 105, 101, 116, 32, 107, 105, 108, 111>>

ExtraVocabulary ==
    { <<107, 105, 108, 111>>,                                   \* kilo
      <<108, 105, 109, 97>>,                                    \* lima
      <<99, 97, 116>> }                                         \* cat

TopInputs ==
    { JoinWords(ws) : ws \in UNION { [1..n -> TopVocabulary] : n \in 0..MaxTopicWords } }
        \cup { JoinWords(<<ElevenWords>> \o ws) :
                 ws \in UNION { [1..n -> ExtraVocabulary] : n \in 0..MaxExtraWords } }

TopIdle ==
    /\ topPc = "off"
    /\ topIn = <<>>
    /\ topOut = <<>>

TopInit ==
    /\ topPc = "input"
    /\ topIn \in TopInputs
    /\ topOut = <<>>

topRest == <<pipeVars, sanVars, normVars, dispVars, senVars, entVars, readVars, unitVars>>

\* topics = await this.extractTopics(content)
TopicExtraction ==
    /\ topPc = "input"
    /\ topOut' \in ExtractTopics(topIn)
    /\ topPc' = "done"
    /\ UNCHANGED <<topIn, topRest>>

\* topics, in the result
ReturnTopics ==
    /\ topPc = "done"
    /\ topPc' = "returned"
    /\ UNCHANGED <<topIn, topOut, topRest>>

TopNext == TopicExtraction \/ ReturnTopics

-----------------------------------------------------------------------------
(* extractEntities: the three regular expressions, matched as the engine   *)
(* matches them (leftmost, greedy, backtracking), and getContext.          *)

\* \w
IsWordChar(c) == c \in (65..90) \cup (97..122) \cup Digits \cup {95}

\* \b between s[i] and s[i + 1] (i = 0: the start, i = Len(s): the end)
Boundary(s, i) ==
    (i >= 1 /\ IsWordChar(s[i])) # (i + 1 <= Len(s) /\ IsWordChar(s[i + 1]))

\* the characters p .. p + n - 1 of s exist and are digits
DigitsAt(s, p, n) == p + n - 1 <= Len(s) /\ \A k \in p..(p + n - 1) : s[k] \in Digits

CharAt(s, p, set) == p <= Len(s) /\ s[p] \in set

\* [\/\-]
DateSeparators == {47, 45}

\* /\b\d{1,2}[\/\-]\d{1,2}[\/\-]\d{2,4}\b/ at position p: the ways to match
DateMatches(s, p) ==
    { t \in (1..2) \X (1..2) \X (2..4) :
        /\ Boundary(s, p - 1)
        /\ DigitsAt(s, p, t[1])
        /\ CharAt(s, p + t[1], DateSeparators)
        /\ DigitsAt(s, p + t[1] + 1, t[2])
        /\ CharAt(s, p + t[1] + 1 + t[2], DateSeparators)
        /\ DigitsAt(s, p + t[1] + t[2] + 2, t[3])
        /\ Boundary(s, p + t[1] + t[2] + t[3] + 1) }

\* greedy quantifiers: the engine tries the longer repetition first
Preferred(t, u) ==
    \/ t[1] > u[1]
    \/ t[1] = u[1] /\ t[2] > u[2]
    \/ t[1] = u[1] /\ t[2] = u[2] /\ t[3] >= u[3]

DateLength(s, p) ==
    IF DateMatches(s, p) = {} THEN 0
    ELSE LET t == CHOOSE t \in DateMatches(s, p) : \A u \in DateMatches(s, p) : Preferred(t, u)
         IN  t[1] + t[2] + t[3] + 2

\* /\b\d+(?:\.\d+)?%\b/ at position p: the ways to match, as <<integer
\* digits, fraction digits>> (0: no fraction group)
PercentageMatches(s, p) ==
    { t \in (1..Len(s)) \X (0..Len(s)) :
        /\ Boundary(s, p - 1)
        /\ DigitsAt(s, p, t[1])
        /\ IF t[2] = 0
           THEN /\ CharAt(s, p + t[1], {37})
                /\ Boundary(s, p + t[1])
           ELSE /\ CharAt(s, p + t[1], {46})
                /\ DigitsAt(s, p + t[1] + 1, t[2])
                /\ CharAt(s, p + t[1] + 1 + t[2], {37})
                /\ Boundary(s, p + t[1] + 1 + t[2]) }

PercentageLength(s, p) ==
    IF PercentageMatches(s, p) = {} THEN 0
    ELSE LET t == CHOOSE t \in PercentageMatches(s, p) :
                      \A u \in PercentageMatches(s, p) :
                          t[1] > u[1] \/ (t[1] = u[1] /\ t[2] >= u[2])
         IN  t[1] + (IF t[2] = 0 THEN 0 ELSE t[2] + 1) + 1

\* (?:,\d{3})* from position p: the number of groups matched
RECURSIVE ThousandsGroups(_, _)
ThousandsGroups(s, p) ==
    IF CharAt(s, p, {44}) /\ DigitsAt(s, p + 1, 3) THEN 1 + ThousandsGroups(s, p + 4) ELSE 0

\* /\$\d+(?:,\d{3})*(?:\.\d{2})?/ at position p: everything behind \d+ is
\* optional, so the greedy match never backtracks
MoneyLength(s, p) ==
    IF ~(CharAt(s, p, {36}) /\ DigitsAt(s, p + 1, 1)) THEN 0
    ELSE LET digits == RunLength(Drop(s, p), Digits)
             groups == ThousandsGroups(s, p + 1 + digits)
             q == p + 1 + digits + 4 * groups
             cents == IF CharAt(s, q, {46}) /\ DigitsAt(s, q + 1, 2) THEN 3 ELSE 0
         IN  1 + digits + 4 * groups + cents

MatchLength(type, s, p) ==
    IF type = "date" THEN DateLength(s, p)
    ELSE IF type = "percentage" THEN PercentageLength(s, p)
    ELSE MoneyLength(s, p)

\* content.match(regex with flag g) || []: the matches from position p on
RECURSIVE MatchAll(_, _, _)
MatchAll(type, s, p) ==
    IF p > Len(s) THEN <<>>
    ELSE LET n == MatchLength(type, s, p)
         IN  IF n > 0 THEN <<SubSeq(s, p, p + n - 1)>> \o MatchAll(type, s, p + n)
             ELSE MatchAll(type, s, p + 1)

\* content.indexOf(entity), 1-based; 0 when it does not occur
RECURSIVE IndexOf(_, _, _)
IndexOf(s, entity, p) ==
    IF p + Len(entity) - 1 > Len(s) THEN 0
    ELSE IF SubSeq(s, p, p + Len(entity) - 1) = entity THEN p
    ELSE IndexOf(s, entity, p + 1)

ContextRadius == 50

\* getContext
GetContext(s, entity) ==
    LET index == IndexOf(s, entity, 1) - 1
    IN  IF index = -1 THEN <<>>
        ELSE LET start == IF index - ContextRadius > 0 THEN index - ContextRadius ELSE 0
                 end == IF index + Len(entity) + ContextRadius < Len(s)
                        THEN index + Len(entity) + ContextRadius ELSE Len(s)
             IN  SubSeq(s, start + 1, end)

\* matches.forEach(m => entities.push({ ... })), confidence in hundredths
EntitiesOf(type, confidence, s) ==
    LET matches == MatchAll(type, s, 1)
    IN  [k \in 1..Len(matches) |->
            [text |-> matches[k], type |-> type, confidence |-> confidence,
             context |-> GetContext(s, matches[k])]]

\* DocumentAnalysisFramework.extractEntities
ExtractEntities(s) ==
    EntitiesOf("date", 80, s) \o EntitiesOf("percentage", 90, s) \o EntitiesOf("money", 90, s)

MaxEntTokens == 3

EntTokens ==
    { <<49, 50, 46, 53, 37>>,                                   \* 12.5%
      <<36, 49, 44, 50, 53, 48, 46, 48, 48>>,                   \* $1,250.00
      <<48, 51, 47, 49, 52, 47, 50, 48, 50, 52>>,               \* 03/14/2024
      <<32>>,                                                   \* ' '
      <<120>>,                                                  \* x
      <<49>>,                                                   \* 1
      <<45>>,                                                   \* -
      <<37>> }                                                  \* %

\* "Revenue grew 12.5% to $1,250.00 on 03/14/2024"
RevenueDocument ==
    <<82, 101, 118, 101, 110, 117, 101, 32, 103, 114, 101, 119, 32, 49, 50, 46, 53, 37, 32,
      116, 111, 32, 36, 49, 44, 50, 53, 48, 46, 48, 48, 32, 111, 110, 32, 48, 51, 47, 49, 52,
      47, 50, 48, 50, 52>>

\* n times the letter x
Filler(n) == [k \in 1..n |-> 120]

\* documents longer than the context window: a date that occurs twice, and
\* an amount that occurs earlier as the beginning of a larger amount
LongDocuments ==
    { <<48, 51, 47, 49, 52, 47, 50, 48, 50, 52, 32>> \o Filler(ContextRadius + 1)
          \o <<32, 48, 51, 47, 49, 52, 47, 50, 48, 50, 52>>,
      <<36, 57, 48, 32>> \o Filler(ContextRadius + 1) \o <<32, 36, 57>>,
      Filler(ContextRadius + 1) \o <<32, 36, 57, 32>> \o Filler(ContextRadius + 1) }

EntInputs ==
    { Concat(ts) : ts \in UNION { [1..n -> EntTokens] : n \in 0..MaxEntTokens } }
        \cup {RevenueDocument} \cup LongDocuments

EntIdle ==
    /\ entPc = "off"
    /\ entIn = <<>>
    /\ entOut = <<>>

EntInit ==
    /\ entPc = "input"
    /\ entIn \in EntInputs
    /\ entOut = <<>>

entRest == <<pipeVars, sanVars, normVars, dispVars, senVars, topVars, readVars, unitVars>>

\* entities = await this.extractEntities(content)
EntityExtraction ==
    /\ entPc = "input"
    /\ entOut' = ExtractEntities(entIn)
    /\ entPc' = "done"
    /\ UNCHANGED <<entIn, entRest>>

\* key_entities: entities, in the result
ReturnEntities ==
    /\ entPc = "done"
    /\ entPc' = "returned"
    /\ UNCHANGED <<entIn, entOut, entRest>>

EntNext == EntityExtraction \/ ReturnEntities

-----------------------------------------------------------------------------
(* calculateReadabilityScore, in exact fractions.                          *)

\* [.!?]
SentenceEnds == {46, 33, 63}

\* [aeiouy]
Vowels == {97, 101, 105, 111, 117, 121}

\* the number of maximal runs of characters of set in s
RECURSIVE CountRunsOf(_, _)
CountRunsOf(s, set) ==
    IF s = <<>> THEN 0
    ELSE IF Head(s) \in set
         THEN LET n == RunLength(s, set) IN 1 + CountRunsOf(Drop(s, n), set)
         ELSE CountRunsOf(Tail(s), set)

\* content.split(/[.!?]+/).length
CountSentences(text) == CountRunsOf(text, SentenceEnds) + 1

\* Math.max(1, (word.match(/[aeiouy]+/g) || []).length), summed over the words
RECURSIVE SumSyllables(_)
SumSyllables(words) ==
    IF words = <<>> THEN 0
    ELSE (IF CountRunsOf(Head(words), Vowels) > 1 THEN CountRunsOf(Head(words), Vowels) ELSE 1)
             + SumSyllables(Tail(words))

\* countSyllables
CountSyllables(text) == SumSyllables(MatchWords(ToLowerCase(text)))

\* Math.max(0, Math.min(100, score)) of the fraction num / den, den > 0
Clamp(num, den) ==
    IF num <= 0 THEN Ratio(0, 1)
    ELSE IF num >= 100 * den THEN Ratio(100, 1)
    ELSE Ratio(num, den)

\* DocumentAnalysisFramework.calculateReadabilityScore:
\* 206.835 - 1.015 * (words / sentences) - 84.6 * (syllables / words)
CalculateReadabilityScore(text) ==
    LET sentences == CountSentences(text)
        words == CountWords(text)
        syllables == CountSyllables(text)
    IN  IF sentences = 0 \/ words = 0 THEN Ratio(0, 1)
        ELSE Clamp(206835 * sentences * words - 1015 * words * words
                       - 84600 * syllables * sentences,
                   1000 * sentences * words)

MaxReadTokens == 4

ReadTokens ==
    { <<99, 97, 116>>,                                          \* cat
      <<98, 97, 110, 97, 110, 97>>,                             \* banana
      <<116, 118>>,                                             \* tv
      <<46>>,                                                   \* .
      <<33, 63>>,                                               \* !?
      <<32>> }                                                  \* ' '

ReadInputs == { Concat(ts) : ts \in UNION { [1..n -> ReadTokens] : n \in 0..MaxReadTokens } }

NoScore == Ratio(-1, 1)

ReadIdle ==
    /\ readPc = "off"
    /\ readIn = <<>>
    /\ readOut = NoScore

ReadInit ==
    /\ readPc = "input"
    /\ readIn \in ReadInputs
    /\ readOut = NoScore

readRest == <<pipeVars, sanVars, normVars, dispVars, senVars, topVars, entVars, unitVars>>

\* readability_score: this.calculateReadabilityScore(preprocessedContent)
ReadabilityScoring ==
    /\ readPc = "input"
    /\ readOut' = CalculateReadabilityScore(readIn)
    /\ readPc' = "done"
    /\ UNCHANGED <<readIn, readRest>>

\* readability_score, in the result
ReturnScore ==
    /\ readPc = "done"
    /\ readPc' = "returned"
    /\ UNCHANGED <<readIn, readOut, readRest>>

ReadNext == ReadabilityScoring \/ ReturnScore

-----------------------------------------------------------------------------
(* Stages 5 to 8 of analyzeDocument on one preprocessed content: the       *)
(* signals and the compiled AnalysisResult.                                *)

\* sections.map(section => section.confidence || 0.5), summed; in hundredths
RECURSIVE SumConfidences(_)
SumConfidences(secs) ==
    IF secs = <<>> THEN 0
    ELSE (IF Head(secs).confidence = 0 THEN 50 ELSE Head(secs).confidence)
             + SumConfidences(Tail(secs))

\* calculateConfidenceScore: the sum divided by confidences.length
\* (0 / 0, not a number, for an analysis without sections)
CalculateConfidenceScoreUndivided(analysis) == Ratio(SumConfidences(analysis), 100)

CalculateConfidenceScore(analysis) == Ratio(SumConfidences(analysis), 100 * Len(analysis))

\* the texts callAIProvider returns for a prompt
ResTexts ==
    { <<79, 75>>,                                               \* OK
      <<>>,                                                     \* nothing
      <<71, 111, 32, 111, 110, 46>> }                           \* Go on.

\* the aiAnalysis objects performAIAnalysis returns for a catalog template
ResSections ==
    { [k \in 1..Len(StringPrompts) |-> MakeSection(StringPrompts[k].key, f[k])] :
        f \in [1..Len(StringPrompts) -> ResTexts] }

\* preprocessed contents: non-empty, trimmed, single-spaced
ResContents ==
    { <<67, 46>>,                                               \* C.
      <<98, 97, 100, 32, 114, 105, 115, 107>>,                  \* bad risk
      <<49, 50, 46, 53, 37, 120, 32, 100, 97, 116, 97>>,        \* 12.5%x data
      <<103, 111, 111, 100, 32, 103, 111, 111, 100, 32, 103, 114, 101, 97, 116, 32, 98, 97, 100, 32, 49, 47, 50, 47, 50, 52, 32, 36, 57>> } \* good good great bad 1/2/24 $9

NoResult ==
    [sections |-> <<>>, confidence_score |-> Ratio(0, 1), word_count |-> 0,
     readability_score |-> NoScore, sentiment_analysis |-> NoSentiment,
     key_entities |-> <<>>, topics |-> <<>>]

ResIdle ==
    /\ resPc = "off"
    /\ resIn = <<>>
    /\ resSecs = <<>>
    /\ resOut = NoResult

ResInit ==
    /\ resPc = "entities"
    /\ resIn \in ResContents
    /\ resSecs \in ResSections
    /\ resOut = NoResult

resRest == <<pipeVars, sanVars, normVars, dispVars, extractorVars, getVars, preVars, scrVars>>

\* stage 5: entities = extractEntities(...), topics = extractTopics(...)
ExtractSignals ==
    /\ resPc = "entities"
    /\ \E topics \in ExtractTopics(resIn) :
          resOut' = [resOut EXCEPT !.key_entities = ExtractEntities(resIn), !.topics = topics]
    /\ resPc' = "sentiment"
    /\ UNCHANGED <<resIn, resSecs, resRest>>

\* stage 6: sentiment = analyzeSentiment(...)
ScoreSentiment ==
    /\ resPc = "sentiment"
    /\ resOut' = [resOut EXCEPT !.sentiment_analysis = AnalyzeSentiment(resIn)]
    /\ resPc' = "compilation"
    /\ UNCHANGED <<resIn, resSecs, resRest>>

\* stage 8: const result: AnalysisResult = { ... }; return result
CompileResult ==
    /\ resPc = "compilation"
    /\ resOut' = [resOut EXCEPT !.sections = resSecs,
                                !.confidence_score = CalculateConfidenceScore(resSecs),
                                !.word_count = CountWords(resIn),
                                !.readability_score = CalculateReadabilityScore(resIn)]
    /\ resPc' = "returned"
    /\ UNCHANGED <<resIn, resSecs, resRest>>

ResNext == ExtractSignals \/ ScoreSentiment \/ CompileResult

-----------------------------------------------------------------------------
(* The template getters.                                                   *)

\* Array.prototype.find: the first element that matches, or undefined
\* (matches[k]: the predicate's answer for the k-th element)
Find(ts, matches) ==
    LET hits == { k \in 1..Len(ts) : matches[k] }
    IN  IF hits = {} THEN [kind |-> "undefined", value |-> <<>>]
        ELSE [kind |-> "template",
              value |-> <<ts[CHOOSE k \in hits : \A m \in hits : k <= m]>>]

\* getTemplate: this.templates.find(template => template.id === id)
GetTemplateOfCategory(ts, id) == Find(ts, [k \in 1..Len(ts) |-> ts[k].category = id])

GetTemplate(ts, id) == Find(ts, [k \in 1..Len(ts) |-> ts[k].id = id])

\* getTemplatesByCategory: this.templates.filter(template => template.category === category)
GetTemplatesByCategory(ts, category) ==
    [kind |-> "list", value |-> SelectSeq(ts, LAMBDA template : template.category = category)]

\* getTemplates: return this.templates
GetTemplates(ts) == [kind |-> "list", value |-> ts]

\* the category union of AnalysisTemplate
Categories ==
    {"business", "academic", "legal", "technical", "creative", "financial", "personal",
     "medical", "education", "marketing"}

\* the arguments the callers pass: catalog ids, categories and other strings
GetArgs ==
    { Catalog[k].id : k \in 1..Len(Catalog) } \cup Categories
        \cup {"nonexistent", "", "Business-Report", "business-report "}

NoAnswer == [kind |-> "none", value |-> <<>>]

GetIdle ==
    /\ getPc = "off"
    /\ getArg = ""
    /\ getOut = NoAnswer

GetInit ==
    /\ getPc = "ready"
    /\ getArg \in GetArgs
    /\ getOut = NoAnswer

getRest == <<pipeVars, sanVars, normVars, dispVars, extractorVars, resVars, preVars, scrVars>>

CallGetTemplate ==
    /\ getPc = "ready"
    /\ getOut' = GetTemplate(templates, getArg)
    /\ getPc' = "getTemplate"
    /\ UNCHANGED <<getArg, getRest>>

CallGetTemplatesByCategory ==
    /\ getPc = "ready"
    /\ getOut' = GetTemplatesByCategory(templates, getArg)
    /\ getPc' = "getTemplatesByCategory"
    /\ UNCHANGED <<getArg, getRest>>

CallGetTemplates ==
    /\ getPc = "ready"
    /\ getOut' = GetTemplates(templates)
    /\ getPc' = "getTemplates"
    /\ UNCHANGED <<getArg, getRest>>

GetNext == CallGetTemplate \/ CallGetTemplatesByCategory \/ CallGetTemplates

-----------------------------------------------------------------------------
(* preprocessDocument with its file-type steps, and stage 1 around it.     *)

Hash == 35
Star == 42
Backtick == 96
Comma == 44
LineFeed == 10
FormFeed == 12

\* content.replace(/#{1,6}\s+/g, ''), from position p on
RECURSIVE RemoveHeaders(_, _)
RemoveHeaders(s, p) ==
    IF p > Len(s) THEN <<>>
    ELSE LET k == RunLength(SubSeq(s, p, Len(s)), {Hash})
             w == RunLength(SubSeq(s, p + k, Len(s)), Whitespace)
         IN  IF k >= 1 /\ k <= 6 /\ w >= 1 THEN RemoveHeaders(s, p + k + w)
             ELSE <<s[p]>> \o RemoveHeaders(s, p + 1)

\* content.replace(/d(.*?)d/g, '$1') for a delimiter d, from position p on;
\* with keep = FALSE the replacement is ''
RECURSIVE ReplaceDelimited(_, _, _, _)
ReplaceDelimited(s, p, d, keep) ==
    IF p > Len(s) THEN <<>>
    ELSE LET q == IF IndexOf(s, d, p) = p THEN IndexOf(s, d, p + Len(d)) ELSE 0
         IN  IF q > 0
             THEN (IF keep THEN SubSeq(s, p + Len(d), q - 1) ELSE <<>>)
                      \o ReplaceDelimited(s, q + Len(d), d, keep)
             ELSE <<s[p]>> \o ReplaceDelimited(s, p + 1, d, keep)

\* content.replace(/\[([^\]]+)\]\([^)]+\)/g, '$1'), from position p on
RECURSIVE ReplaceLinks(_, _)
ReplaceLinks(s, p) ==
    IF p > Len(s) THEN <<>>
    ELSE LET c == IF s[p] = 91 THEN IndexOf(s, <<93>>, p + 1) ELSE 0
             e == IF c > p + 1 /\ c < Len(s) /\ s[c + 1] = 40 THEN IndexOf(s, <<41>>, c + 2) ELSE 0
         IN  IF e > c + 2 THEN SubSeq(s, p + 1, c - 1) \o ReplaceLinks(s, e + 1)
             ELSE <<s[p]>> \o ReplaceLinks(s, p + 1)

\* cleanMarkdown
CleanMarkdown(text) ==
    LET headers == RemoveHeaders(text, 1)
        bold == ReplaceDelimited(headers, 1, <<Star, Star>>, TRUE)
        italic == ReplaceDelimited(bold, 1, <<Star>>, TRUE)
        code == ReplaceDelimited(italic, 1, <<Backtick>>, TRUE)
        blocks == ReplaceDelimited(code, 1, <<Backtick, Backtick, Backtick>>, FALSE)
    IN  Trim(ReplaceLinks(blocks, 1))

\* content.replace(/([a-z])([A-Z])/g, '$1 $2')
RECURSIVE SplitCamelCase(_)
SplitCamelCase(s) ==
    IF Len(s) < 2 THEN s
    ELSE IF s[1] \in 97..122 /\ s[2] \in 65..90
         THEN <<s[1], Space>> \o SplitCamelCase(Tail(s))
         ELSE <<s[1]>> \o SplitCamelCase(Tail(s))

\* cleanPdfText
CleanPdfText(text) ==
    LET lines == [k \in 1..Len(text) |-> IF text[k] = FormFeed THEN LineFeed ELSE text[k]]
    IN  Trim(CollapseWhitespace(SplitCamelCase(lines)))

\* String.prototype.split with a one-character separator
RECURSIVE Split(_, _)
Split(s, sep) ==
    LET k == IndexOf(s, <<sep>>, 1)
    IN  IF k = 0 THEN <<s>> ELSE <<SubSeq(s, 1, k - 1)>> \o Split(Drop(s, k), sep)

\* Array.prototype.join
RECURSIVE JoinWith(_, _)
JoinWith(parts, sep) ==
    IF parts = <<>> THEN <<>>
    ELSE IF Len(parts) = 1 THEN parts[1]
    ELSE parts[1] \o sep \o JoinWith(Tail(parts), sep)

\* the decimal digits of a natural number
RECURSIVE Decimal(_)
Decimal(n) == IF n < 10 THEN <<48 + n>> ELSE Decimal(n \div 10) \o <<48 + (n % 10)>>

\* `Row ${index + 1}: ${row}\n` for the first five rows, from row k on
RECURSIVE SampleRows(_, _)
SampleRows(rows, k) ==
    IF k > Len(rows) \/ k > 5 THEN <<>>
    ELSE <<82, 111, 119, 32>> \o Decimal(k) \o <<58, Space>> \o rows[k] \o <<LineFeed>>
             \o SampleRows(rows, k + 1)

\* processCsvContent
ProcessCsvContent(text) ==
    LET lines == Split(text, LineFeed)
        headers == Split(lines[1], Comma)
        rows == Tail(lines)
    IN  <<68, 97, 116, 97, 32, 65, 110, 97, 108, 121, 115, 105, 115, 32, 83, 117, 109, 109, 97, 114,
  121, 58, 10>>
            \o <<72, 101, 97, 100, 101, 114, 115, 58, 32>> \o JoinWith(headers, <<Comma, Space>>) \o <<LineFeed>>
            \o <<84, 111, 116, 97, 108, 32, 114, 111, 119, 115, 58, 32>> \o Decimal(Len(rows)) \o <<LineFeed, LineFeed>>
            \o (IF Len(rows) > 0 THEN <<83, 97, 109, 112, 108, 101, 32, 100, 97, 116, 97, 58, 10>> \o SampleRows(rows, 1) ELSE <<>>)

\* preprocessDocument
PreprocessDocumentOfType(text, fileType) ==
    LET processed == Trim(CollapseWhitespace(text))
    IN  IF fileType = "pdf" THEN CleanPdfText(processed)
        ELSE IF fileType = "md" THEN CleanMarkdown(processed)
        ELSE IF fileType = "csv" THEN ProcessCsvContent(processed)
        ELSE processed

\* fileType: 'pdf' | 'txt' | 'md' | 'docx' | 'csv' | 'json'
FileTypes == {"pdf", "txt", "md", "docx", "csv", "json"}

MaxPreTokens == 3

PreTokens ==
    { <<42>>,                                                   \* *
      <<35>>,                                                   \* #
      <<96>>,                                                   \* `
      <<32>>,                                                   \* ' '
      <<97>>,                                                   \* a
      <<97, 66, 44, 99>>,                                       \* aB,c
      <<91, 97, 93, 40, 98, 41>> }                              \* [a](b)

PreDocs == { Concat(ts) : ts \in UNION { [1..n -> PreTokens] : n \in 0..MaxPreTokens } }

PreIdle ==
    /\ prePc = "off"
    /\ preDoc = <<>>
    /\ preType = "txt"
    /\ preContent = <<>>
    /\ preHanded = <<>>

PreInit ==
    /\ prePc = "called"
    /\ preDoc \in PreDocs
    /\ preType \in FileTypes
    /\ preContent = <<>>
    /\ preHanded = <<>>

preRest == <<pipeVars, sanVars, normVars, dispVars, extractorVars, resVars, getVars, scrVars>>

\* stage 1: sanitize, reject empty content, preprocess by file type
PreprocessTyped ==
    /\ prePc = "called"
    /\ LET sanitizedContent == SanitizeContent(preDoc)
       IN  IF IsEmpty(sanitizedContent)
           THEN /\ prePc' = "failed"
                /\ UNCHANGED preContent
           ELSE /\ preContent' = PreprocessDocumentOfType(sanitizedContent, preType)
                /\ prePc' = "ai"
    /\ UNCHANGED <<preDoc, preType, preHanded, preRest>>

\* stage 4: performAIAnalysis(preprocessedContent, ...), the document of
\* every provider request
HandToProvider ==
    /\ prePc = "ai"
    /\ preHanded' = Append(preHanded, [to |-> "provider", content |-> preContent])
    /\ prePc' = "entities"
    /\ UNCHANGED <<preDoc, preType, preContent, preRest>>

\* stages 5 and 6: extractEntities, extractTopics, analyzeSentiment
HandToExtractors ==
    /\ prePc = "entities"
    /\ preHanded' = Append(preHanded, [to |-> "extractors", content |-> preContent])
    /\ prePc' = "done"
    /\ UNCHANGED <<preDoc, preType, preContent, preRest>>

PreNext == PreprocessTyped \/ HandToProvider \/ HandToExtractors

-----------------------------------------------------------------------------
(* The analyze screen: startAnalysis with saveAnalysisToDatabase.  The     *)
(* backend client resolves every insert with { data, error }; the call of  *)
(* analyzeDocument reports its progress, then returns a result or throws.  *)

\* [\u0001-\u0008\u000B\u000C\u000E-\u001F\u007F-\u009F]
ScreenControlChars == (1..8) \cup {11, 12} \cup (14..31) \cup (Delete..159)

\* the replacement callback of sanitizeDocumentContent
ScreenDecoded(codePoint) ==
    IF codePoint = 0 \/ (codePoint >= 1 /\ codePoint <= 31)
          \/ (codePoint >= Delete /\ codePoint <= 159)
    THEN <<>>
    ELSE <<codePoint>>

RECURSIVE ScreenDecodeEscapes(_)
ScreenDecodeEscapes(s) ==
    IF s = <<>> THEN <<>>
    ELSE IF StartsWithEscape(s)
         THEN ScreenDecoded(ParseHex4(SubSeq(s, 3, 6))) \o ScreenDecodeEscapes(Drop(s, 6))
         ELSE <<Head(s)>> \o ScreenDecodeEscapes(Tail(s))

\* sanitizeDocumentContent of the screen
SanitizeDocumentContent(s) ==
    IF s = <<>> THEN <<>>
    ELSE Trim(CollapseWhitespace(
             RemoveChars(RemoveChars(
                 ScreenDecodeEscapes(RemoveNulEscapes(
                     RemoveChars(RemoveChars(s, {0}), ScreenControlChars))),
                 {0}), ScreenControlChars)))

\* the text of the files a user picks
ScreenFiles ==
    { <<97>>,                                                     \* a
      <<97, 32, 98>>,                                             \* a b
      <<Backslash, LowerU, 48, 48, 53, 67, LowerU, 48, 48, 52, 49>>,  \* \u0041
      <<Backslash, LowerU, 48, 48, 53, 67, LowerU, 48, 48, 48, 49>>,  \* \u0001
      <<Backslash, LowerU, 48, 48, 53, 67, LowerU, 48, 48, 56, 53>>,  \* \u0085
      <<1>>,                                                      \* a control character
      <<>> }

NoDocument == [id |-> "null", content |-> <<>>]

\* pickDocument: the content is sanitized, a file without content is refused
PickedDocuments ==
    { [id |-> "local-id", content |-> SanitizeDocumentContent(f)] :
          f \in { g \in ScreenFiles : SanitizeDocumentContent(g) # <<>> } }

NoUser == "null"
NoTemplate == "null"
NoProgress == Report("null", 0)

\* the reports analyzeDocument makes on a template with n prompts, in order
FrameworkReports(n) ==
    <<Report("preprocessing", 5), Report("metadata", 15), Report("structure", 25),
      Report("ai_analysis", 40)>>
    \o [i \in 1..n |-> Report("ai_analysis", LoopProgress(i - 1, n))]
    \o <<Report("entities", 80), Report("sentiment", 85), Report("visualizations", 90),
         Report("compilation", 95), Report("complete", 100)>>

ScreenPrompts == Len(Catalog[1].prompts)

ScreenReports == FrameworkReports(ScreenPrompts)

\* the reports after which a provider call is pending
ProviderCallReports == { 4 + i : i \in 1..ScreenPrompts }

ScrIdle ==
    /\ scrPc = "off"
    /\ user = NoUser
    /\ document = NoDocument
    /\ selectedTemplate = NoTemplate
    /\ apiKey = ""
    /\ isAnalyzing = FALSE
    /\ analysisProgress = NoProgress
    /\ analysisResult = NoOutcome
    /\ savedDocumentId = "null"
    /\ reported = 0
    /\ callOutcome = "none"
    /\ writes = <<>>
    /\ failed = <<>>
    /\ modals = <<>>

\* the screen when the Start button is pressed (or startAnalysis is called
\* as the retry of a modal)
ScrInit ==
    /\ scrPc = "idle"
    /\ user \in {NoUser, "user-1"}
    /\ document \in {NoDocument} \cup PickedDocuments
    /\ selectedTemplate \in {NoTemplate, Catalog[1].id}
    /\ apiKey \in {"", "sk-1"}
    /\ isAnalyzing = FALSE
    /\ analysisProgress = NoProgress
    /\ analysisResult = NoOutcome
    /\ savedDocumentId = "null"
    /\ reported = 0
    /\ callOutcome = "none"
    /\ writes = <<>>
    /\ failed = <<>>
    /\ modals = <<>>

scrRest == <<pipeVars, sanVars, normVars, dispVars, extractorVars, resVars, getVars, preVars>>

\* the catch block of saveAnalysisToDatabase: it warns and returns
SaveCatch == <<"Save Warning">>

\* startAnalysis up to its first await
ScreenStartAnalysis ==
    /\ scrPc = "idle"
    /\ IF document = NoDocument \/ selectedTemplate = NoTemplate
       THEN /\ scrPc' = "returned"
            /\ UNCHANGED <<isAnalyzing, analysisProgress, savedDocumentId, writes, modals>>
       ELSE IF apiKey = ""
       THEN /\ modals' = Append(modals, "API Key Required")
            /\ scrPc' = "returned"
            /\ UNCHANGED <<isAnalyzing, analysisProgress, savedDocumentId, writes>>
       ELSE IF user = NoUser
       THEN /\ isAnalyzing' = TRUE
            /\ analysisProgress' = Report("init", 0)
            /\ savedDocumentId' = document.id
            /\ scrPc' = "analysis"
            /\ UNCHANGED <<writes, modals>>
       ELSE IF Trim(SanitizeDocumentContent(document.content)) = <<>>
       THEN \* throw new Error(...), the catch block, the finally block
            /\ savedDocumentId' = document.id
            /\ modals' = Append(modals, "Analysis Failed")
            /\ analysisProgress' = Report("error", 0)
            /\ isAnalyzing' = FALSE
            /\ scrPc' = "finished"
            /\ UNCHANGED writes
       ELSE /\ isAnalyzing' = TRUE
            /\ analysisProgress' = Report("init", 5)
            /\ savedDocumentId' = document.id
            /\ writes' = Append(writes, "documents")
            /\ scrPc' = "documents"
            /\ UNCHANGED modals
    /\ UNCHANGED <<user, document, selectedTemplate, apiKey, analysisResult, reported,
                   callOutcome, failed, scrRest>>

\* the insert into documents settles; analyzeDocument is called
DocumentInsertSettles ==
    /\ scrPc = "documents"
    /\ \E documentError \in BOOLEAN :
          IF documentError
          THEN /\ failed' = Append(failed, "documents")
               /\ UNCHANGED savedDocumentId
          ELSE /\ savedDocumentId' = "db-id"
               /\ UNCHANGED failed
    /\ scrPc' = "analysis"
    /\ UNCHANGED <<user, document, selectedTemplate, apiKey, isAnalyzing, analysisProgress,
                   analysisResult, reported, callOutcome, writes, modals, scrRest>>

\* the progress callback handed to analyzeDocument
ReportProgress ==
    /\ scrPc = "analysis"
    /\ reported < Len(ScreenReports)
    /\ reported >= 1 => ~IsEmpty(SanitizeContent(document.content))
    /\ reported' = reported + 1
    /\ analysisProgress' = ScreenReports[reported + 1]
    /\ UNCHANGED <<scrPc, user, document, selectedTemplate, apiKey, isAnalyzing,
                   analysisResult, savedDocumentId, callOutcome, writes, failed, modals,
                   scrRest>>

\* analyzeDocument throws (empty content after the first report, or a failed
\* provider call): the catch block, the finally block
AnalyzeDocumentThrows ==
    /\ scrPc = "analysis"
    /\ IF IsEmpty(SanitizeContent(document.content))
       THEN reported = 1
       ELSE reported \in ProviderCallReports
    /\ callOutcome' = "thrown"
    /\ modals' = Append(modals, "Analysis Failed")
    /\ analysisProgress' = Report("error", 0)
    /\ isAnalyzing' = FALSE
    /\ scrPc' = "finished"
    /\ UNCHANGED <<user, document, selectedTemplate, apiKey, analysisResult,
                   savedDocumentId, reported, writes, failed, scrRest>>

\* analyzeDocument returns: setAnalysisResult, then saveAnalysisToDatabase up
\* to its first await, or the end of startAnalysis
AnalyzeDocumentReturns ==
    /\ scrPc = "analysis"
    /\ reported = Len(ScreenReports)
    /\ callOutcome' = "result"
    /\ analysisResult' = Result(<<>>, PreprocessDocument(SanitizeContent(document.content)))
    /\ IF user # NoUser
       THEN /\ analysisProgress' = Report("saving", 98)
            /\ writes' = Append(writes, "analyses")
            /\ scrPc' = "analyses"
            /\ UNCHANGED <<isAnalyzing, modals>>
       ELSE /\ analysisProgress' = Report("complete", 100)
            /\ modals' = Append(modals, "Analysis Complete")
            /\ isAnalyzing' = FALSE
            /\ scrPc' = "finished"
            /\ UNCHANGED writes
    /\ UNCHANGED <<user, document, selectedTemplate, apiKey, savedDocumentId, reported,
                   failed, scrRest>>

\* the insert into analyses settles
AnalysisInsertSettles ==
    /\ scrPc = "analyses"
    /\ \E analysisError \in BOOLEAN :
          IF ~analysisError
          THEN /\ writes' = Append(writes, "analysis_sections")
               /\ scrPc' = "sections"
               /\ UNCHANGED <<failed, modals, analysisProgress, isAnalyzing>>
          ELSE /\ failed' = Append(failed, "analyses")
               /\ modals' = modals \o SaveCatch \o <<"Analysis Complete">>
               /\ analysisProgress' = Report("complete", 100)
               /\ isAnalyzing' = FALSE
               /\ scrPc' = "finished"
               /\ UNCHANGED writes
    /\ UNCHANGED <<user, document, selectedTemplate, apiKey, analysisResult,
                   savedDocumentId, reported, callOutcome, scrRest>>

\* the insert into analysis_sections settles
SectionsInsertSettle ==
    /\ scrPc = "sections"
    /\ \E sectionsError \in BOOLEAN :
          IF ~sectionsError
          THEN /\ modals' = Append(modals, "Analysis Complete")
               /\ analysisProgress' = Report("complete", 100)
               /\ UNCHANGED failed
          ELSE /\ failed' = Append(failed, "analysis_sections")
               /\ modals' = modals \o SaveCatch \o <<"Analysis Complete">>
               /\ analysisProgress' = Report("complete", 100)
    /\ isAnalyzing' = FALSE
    /\ scrPc' = "finished"
    /\ UNCHANGED <<user, document, selectedTemplate, apiKey, analysisResult,
                   savedDocumentId, reported, callOutcome, writes, scrRest>>

ScrNext ==
    \/ ScreenStartAnalysis
    \/ DocumentInsertSettles
    \/ ReportProgress
    \/ AnalyzeDocumentThrows
    \/ AnalyzeDocumentReturns
    \/ AnalysisInsertSettles
    \/ SectionsInsertSettle

-----------------------------------------------------------------------------
(* The specifications.                                                     *)

NormIdle ==
    /\ normPc = "off"
    /\ respText = <<>>
    /\ normOut = NoAnalysis

ExtractorsIdle == SenIdle /\ TopIdle /\ EntIdle /\ ReadIdle

UnitsIdle == ResIdle /\ GetIdle /\ PreIdle /\ ScrIdle

\* concurrent analyzeDocument calls on the shared instance
Init == PipeInit /\ SanIdle /\ NormIdle /\ DispIdle /\ ExtractorsIdle /\ UnitsIdle

Next == PipeNext

Spec == Init /\ [][Next]_vars

\* sanitizeContent on bounded inputs
InitSanitize == PipeIdle /\ SanInit /\ NormIdle /\ DispIdle /\ ExtractorsIdle /\ UnitsIdle

NextSanitize == SanNext

SpecSanitize == InitSanitize /\ [][NextSanitize]_vars

\* the response normalization of AIService on bounded provider texts
InitNormalize == PipeIdle /\ SanIdle /\ NormInit /\ DispIdle /\ ExtractorsIdle /\ UnitsIdle

NextNormalize == NormNext

SpecNormalize == InitNormalize /\ [][NextNormalize]_vars

\* one analyzeDocument call, with a template of the catalog or one that
\* carries custom prompts
InitSingle == PipeInitSingle /\ SanIdle /\ NormIdle /\ DispIdle /\ ExtractorsIdle /\ UnitsIdle

NextSingle == PipeNext

SpecSingle == InitSingle /\ [][NextSingle]_vars

\* one provider call on bounded HTTP responses
InitDispatch == PipeIdle /\ SanIdle /\ NormIdle /\ DispInit /\ ExtractorsIdle /\ UnitsIdle

NextDispatch == DispNext

SpecDispatch == InitDispatch /\ [][NextDispatch]_vars

\* analyzeSentiment on bounded texts
InitSentiment ==
    PipeIdle /\ SanIdle /\ NormIdle /\ DispIdle /\ SenInit /\ TopIdle /\ EntIdle /\ ReadIdle /\ UnitsIdle

NextSentiment == SenNext

SpecSentiment == InitSentiment /\ [][NextSentiment]_vars

\* extractTopics on bounded texts
InitTopics ==
    PipeIdle /\ SanIdle /\ NormIdle /\ DispIdle /\ SenIdle /\ TopInit /\ EntIdle /\ ReadIdle /\ UnitsIdle

NextTopics == TopNext

SpecTopics == InitTopics /\ [][NextTopics]_vars

\* extractEntities on bounded texts
InitEntities ==
    PipeIdle /\ SanIdle /\ NormIdle /\ DispIdle /\ SenIdle /\ TopIdle /\ EntInit /\ ReadIdle /\ UnitsIdle

NextEntities == EntNext

SpecEntities == InitEntities /\ [][NextEntities]_vars

\* calculateReadabilityScore on bounded texts
InitReadability ==
    PipeIdle /\ SanIdle /\ NormIdle /\ DispIdle /\ SenIdle /\ TopIdle /\ EntIdle /\ ReadInit /\ UnitsIdle

NextReadability == ReadNext

SpecReadability == InitReadability /\ [][NextReadability]_vars

\* stages 5 to 8 of analyzeDocument on bounded contents and sections
InitResult == PipeIdle /\ SanIdle /\ NormIdle /\ DispIdle /\ ExtractorsIdle /\ ResInit /\ GetIdle /\ PreIdle /\ ScrIdle

NextResult == ResNext

SpecResult == InitResult /\ [][NextResult]_vars

\* one call of a template getter
InitGetters == PipeIdle /\ SanIdle /\ NormIdle /\ DispIdle /\ ExtractorsIdle /\ ResIdle /\ GetInit /\ PreIdle /\ ScrIdle

NextGetters == GetNext

SpecGetters == InitGetters /\ [][NextGetters]_vars

\* stage 1 of analyzeDocument on bounded documents of every file type
InitPreprocess == PipeIdle /\ SanIdle /\ NormIdle /\ DispIdle /\ ExtractorsIdle /\ ResIdle /\ GetIdle /\ PreInit /\ ScrIdle

NextPreprocess == PreNext

SpecPreprocess == InitPreprocess /\ [][NextPreprocess]_vars

\* one startAnalysis call of the analyze screen
InitScreen ==
    PipeIdle /\ SanIdle /\ NormIdle /\ DispIdle /\ ExtractorsIdle /\ ResIdle /\ GetIdle /\ PreIdle /\ ScrInit

NextScreen == ScrNext

SpecScreen == InitScreen /\ [][NextScreen]_vars

-----------------------------------------------------------------------------
(* Properties of analyzeDocument.                                          *)

Range(f) == { f[k] : k \in DOMAIN f }

Last(q) == q[Len(q)]

Ended(r) == pc[r] \in {"done", "failed"}

StringKeys(t) ==
    LET ps == SelectSeq(t.prompts, LAMBDA p : p.isString)
    IN  [k \in 1..Len(ps) |-> ps[k].key]

SectionKeys(secs) == [k \in 1..Len(secs) |-> secs[k].key]

InFlight(r) == Len(sent[r]) - Len(replies[r])

StageOrder ==
    <<"init", "preprocessing", "metadata", "structure", "ai_analysis", "entities",
      "sentiment", "visualizations", "compilation", "complete">>

StageRank(stage) == CHOOSE k \in 1..Len(StageOrder) : StageOrder[k] = stage

\* C1: the stages reported by one run follow the linear order init,
\* preprocessing, ..., complete: every reported stage is the previous one or its
\* successor (never an earlier one, never skipping one), a run that returned a
\* result reported every stage, and a run that ended before "complete" failed.
C1_StagesFollowOrder ==
    \A r \in Runs :
        LET lg == log[r]
        IN  /\ \A k \in 1..Len(lg) : lg[k].stage \in Range(StageOrder)
            /\ lg # <<>> => lg[1].stage = "init"
            /\ \A k \in 1..(Len(lg) - 1) :
                   StageRank(lg[k + 1].stage) \in
                       {StageRank(lg[k].stage), StageRank(lg[k].stage) + 1}
            /\ outcome[r].kind = "result" =>
                   \A k \in 1..Len(StageOrder) : \E m \in 1..Len(lg) : lg[m].stage = StageOrder[k]
            /\ (Ended(r) /\ Last(lg).stage # "complete") => outcome[r].kind = "error"

C1_Witness ==
    \E r, q \in Runs :
        /\ outcome[r].kind = "result"
        /\ Last(log[r]).stage = "complete"
        /\ Len(log[r]) > Len(StageOrder)
        /\ outcome[q].kind = "error"
        /\ Last(log[q]).stage = "ai_analysis"

\* C2: a failing stage ends the call with exactly one Error whose message is
\* "Analysis failed: " followed by the cause's message, and no result; before
\* the call ends the caller holds nothing; a call that ends without an error
\* returns a result with one section per prompt of its template.
C2_OneWrappedErrorOrResult ==
    \A r \in Runs :
        /\ Len(raised[r]) <= 1
        /\ Len(thrown[r]) <= 1
        /\ (\E k \in 1..Len(replies[r]) : replies[r][k].kind \in {"http", "shape"}) =>
               raised[r] # <<>>
        /\ raised[r] # <<>> =>
               /\ pc[r] = "failed"
               /\ thrown[r] = <<Error(<<"Analysis failed: ">> \o raised[r][1].message)>>
               /\ outcome[r].kind = "error"
               /\ outcome[r].message = thrown[r][1].message
               /\ outcome[r].sections = <<>>
        /\ ~Ended(r) => outcome[r] = NoOutcome
        /\ pc[r] = "failed" => raised[r] # <<>>
        /\ pc[r] = "done" =>
               /\ raised[r] = <<>>
               /\ thrown[r] = <<>>
               /\ outcome[r].kind = "result"
               /\ SectionKeys(outcome[r].sections) = StringKeys(tmpl[r])

C2_Witness ==
    \E r, q \in Runs :
        /\ pc[r] = "failed"
        /\ Len(sections[r]) = 2
        /\ thrown[r] = <<Error(<<"Analysis failed: ", "Gemini API error: ", "API key not valid">>)>>
        /\ pc[q] = "failed"
        /\ thrown[q] = <<Error(<<"Analysis failed: ", "Cannot read properties of undefined">>)>>

\* C3: a document that is empty after sanitization makes the call fail with
\* the input error in its first stage, and no provider request is ever sent.
C3_EmptyInputSendsNothing ==
    \A r \in Runs :
        SanitizeContent(doc[r]) = <<>> =>
            /\ sent[r] = <<>>
            /\ pc[r] \in {"idle", "called", "failed"}
            /\ pc[r] = "failed" =>
                   /\ raised[r] = <<InputError>>
                   /\ Last(log[r]).stage = "preprocessing"

C3_Witness ==
    \E r, q \in Runs :
        /\ doc[r] = <<Space, 9>>
        /\ pc[r] = "failed"
        /\ doc[q] = <<Backslash, LowerU, 48, 48, 48, 49>>
        /\ pc[q] = "failed"
        /\ outcome[q].message =
               <<"Analysis failed: ", "Document content is empty or contains only invalid characters">>

\* C4: at most one request is issued per prompt field of the template, and a
\* failed request is the last request of its run.
C4_SingleAttempt ==
    \A r \in Runs :
        /\ \A k \in 1..Len(sent[r]) : sent[r][k].key \in Range(StringKeys(tmpl[r]))
        /\ \A k, m \in 1..Len(sent[r]) : sent[r][k].key = sent[r][m].key => k = m
        /\ \A k \in 1..Len(replies[r]) :
               replies[r][k].kind \in {"http", "shape"} => Len(sent[r]) = k

C4_Witness ==
    \E r \in Runs :
        /\ Len(replies[r]) = 2
        /\ replies[r][2].kind = "http"
        /\ pc[r] = "failed"
        /\ Len(sent[r]) = 2

\* C5: at most one provider request of a run is in flight, only while the run
\* waits in the loop of performAIAnalysis, and the extractors (stage "entities"
\* and later) run only after every provider call of the run has returned.
C5_Sequential ==
    \A r \in Runs :
        /\ InFlight(r) \in {0, 1}
        /\ InFlight(r) = 1 => pc[r] = "await"
        /\ pc[r] \in {"entities", "sentiment", "visualizations", "compilation", "done"} =>
               /\ InFlight(r) = 0
               /\ Len(replies[r]) = Len(StringKeys(tmpl[r]))
               /\ Last(log[r]).stage # "ai_analysis" =>
                      SectionKeys(sections[r]) = StringKeys(tmpl[r])

C5_Witness ==
    \E r, q \in Runs :
        /\ pc[r] = "sentiment"
        /\ Len(replies[r]) = 4
        /\ pc[q] = "await"
        /\ InFlight(q) = 1
        /\ Len(replies[q]) = 2

\* analyzeDocument run alone on (d, prov, t) with the provider replies reps
RECURSIVE AloneFrom(_, _, _, _, _)
AloneFrom(keys, reps, secs, prov, text) ==
    IF keys = <<>> THEN Result(secs, text)
    ELSE IF reps = <<>> THEN NoOutcome
    ELSE IF Head(reps).kind \in {"http", "shape"}
         THEN Failure(Error(<<"Analysis failed: ">> \o ProviderError(prov, Head(reps)).message))
         ELSE AloneFrom(Tail(keys), Tail(reps),
                        Append(secs, MakeSection(Head(keys), Head(reps).text)), prov, text)

RunAlone(d, prov, t, reps) ==
    IF SanitizeContent(d) = <<>>
    THEN Failure(Error(<<"Analysis failed: ">> \o InputError.message))
    ELSE AloneFrom(StringKeys(t), reps, <<>>, prov, PreprocessDocument(SanitizeContent(d)))

\* the sections a call builds from its own replies, up to the first failure
RECURSIVE SectionsAlone(_, _)
SectionsAlone(keys, reps) ==
    IF keys = <<>> \/ reps = <<>> \/ Head(reps).kind \in {"http", "shape"} THEN <<>>
    ELSE <<MakeSection(Head(keys), Head(reps).text)>> \o SectionsAlone(Tail(keys), Tail(reps))

\* C6: under every interleaving of two calls on the shared instance, each call
\* builds the sections and ends with the outcome (sections, analysed text, or
\* error) it has running alone on its own arguments and its own provider
\* replies, every request it sends carries its own document and provider, and
\* the catalog is unchanged.
C6_Independent ==
    /\ templates = Catalog
    /\ \A r \in Runs :
           /\ sections[r] = SectionsAlone(StringKeys(tmpl[r]), replies[r])
           /\ Ended(r) => outcome[r] = RunAlone(doc[r], provider[r], tmpl[r], replies[r])
           /\ \A k \in 1..Len(sent[r]) :
                  /\ sent[r][k].endpoint = provider[r]
                  /\ sent[r][k].body = PreprocessDocument(SanitizeContent(doc[r]))

C6_Witness ==
    \E r, q \in Runs :
        /\ pc[r] = "done"
        /\ pc[q] = "done"
        /\ outcome[r].analysed # outcome[q].analysed
        /\ outcome[r].sections # outcome[q].sections
        /\ provider[r] # provider[q]

-----------------------------------------------------------------------------
(* Properties of sanitizeContent.                                          *)

\* C7: sanitizing a sanitized string changes nothing:
\* sanitizeContent(sanitizeContent(s)) = sanitizeContent(s).
C7_Idempotent == sanPc = "twice" => sanTwice = sanOnce

\* an escape sequence at position k of s that names a forbidden character
EscapedControlAt(s, k) ==
    /\ StartsWithEscape(Drop(s, k - 1))
    /\ ParseHex4(SubSeq(s, k + 2, k + 5)) \in ForbiddenChars

\* C8: the output of sanitizeContent holds none of the characters 0-8, 11, 12,
\* 14-31, 127, whether the input held them literally or as \uXXXX escapes.
C8_NoControlInOutput ==
    sanPc \in {"once", "twice"} =>
        \A k \in 1..Len(sanOnce) : sanOnce[k] \notin ForbiddenChars

C8_Witness ==
    /\ sanPc = "once"
    /\ \E k \in 1..Len(sanIn) : sanIn[k] \in ForbiddenChars
    /\ \E k \in 1..Len(sanIn) : EscapedControlAt(sanIn, k)
    /\ sanOnce # <<>>

-----------------------------------------------------------------------------
(* Properties of the response normalization.                               *)

\* the provider returned text, and it has been normalized
Normalized == normPc \in {"done", "returned"} /\ respText # UndefinedText

HasValue(v) == v.type \in {"string", "number"}

TextFields == Fields \ {"fullReport"}

\* the placeholder strings of the branch taken when the text parses
JsonPlaceholder(f) ==
    IF f = "summary" THEN Lit("No summary available")
    ELSE IF f = "insights" THEN Lit("No insights available")
    ELSE IF f = "recommendations" THEN Lit("No recommendations available")
    ELSE Lit("No technical details available")

\* the fixed strings of the branch taken when the text does not parse
TextPlaceholder(f) ==
    IF f = "summary" THEN Lit("Analysis completed successfully")
    ELSE IF f = "recommendations" THEN Lit("See full report for recommendations")
    ELSE Lit("Technical analysis included in full report")

FixedPlaceholders ==
    { JsonPlaceholder(f) : f \in TextFields } \cup { TextPlaceholder(f) : f \in TextFields }

\* the names of the members of a text that is a JSON object
RECURSIVE MemberNames(_)
MemberNames(toks) ==
    IF Len(toks) < 3 THEN {} ELSE {toks[1][2]} \cup MemberNames(Drop(toks, 4))

MissingFromJson(text, f) ==
    /\ IsJson(text)
    /\ IsJsonObject(text) => f \notin MemberNames(SubSeq(text, 2, Len(text) - 1))

\* the pattern "key": "value" occurs in the text for field f (any letter case)
PatternAt(text, k, f) ==
    /\ k + 2 <= Len(text)
    /\ text[k][1] = "str"
    /\ Lower(text[k][2]) = Lower(f)
    /\ text[k + 1] = COLON
    /\ text[k + 2][1] = "str"

PatternFound(text, f) == \E k \in 1..Len(text) : PatternAt(text, k, f)

FirstPatternValue(text, f) ==
    LET k == CHOOSE m \in 1..Len(text) :
                 PatternAt(text, m, f) /\ \A j \in 1..(m - 1) : ~PatternAt(text, j, f)
    IN  ContentOf(text[k + 2][2])

\* C9 as stated: every field gets a value, no error, and a field missing from
\* a parsed JSON response gets a fixed placeholder string.
C9_MissingFieldGetsFixedPlaceholder ==
    Normalized =>
        /\ ~normOut.threw
        /\ \A f \in Fields :
               /\ HasValue(normOut.analysis[f])
               /\ MissingFromJson(respText, f) => normOut.analysis[f] \in FixedPlaceholders

\* C9 amended: every field gets a value and no error is raised; when the text
\* parses to a JSON value other than null, a missing (or empty) summary,
\* insights, recommendations or technical is its "No ... available" string and
\* a missing fullReport is the raw response text.
C9_MissingFieldGetsFallback ==
    Normalized =>
        /\ ~normOut.threw
        /\ \A f \in Fields : HasValue(normOut.analysis[f])
        /\ (IsJson(respText) /\ respText # <<NULLTOK>>) =>
               /\ \A f \in TextFields :
                      MissingFromJson(respText, f) => normOut.analysis[f] = JsonPlaceholder(f)
               /\ MissingFromJson(respText, "fullReport") =>
                      normOut.analysis["fullReport"] = StringOf(respText)

C9_Witness ==
    /\ Normalized
    /\ IsJsonObject(respText)
    /\ MissingFromJson(respText, "summary")
    /\ MissingFromJson(respText, "fullReport")
    /\ ~MissingFromJson(respText, "insights")
    /\ normOut.analysis["insights"] = ContentOf("the value")
    /\ normOut.analysis["summary"] = Lit("No summary available")

\* C10 as stated: for a text that is not valid JSON no error is raised, the
\* full report is the raw text, and every field found by the "key": "value"
\* pattern takes the extracted value.
C10_FoundFieldTakesExtractedValue ==
    (Normalized /\ ~IsJson(respText)) =>
        /\ ~normOut.threw
        /\ normOut.analysis["fullReport"] = StringOf(respText)
        /\ \A f \in TextFields :
               PatternFound(respText, f) => normOut.analysis[f] = FirstPatternValue(respText, f)

\* C10 amended: for a text that is not valid JSON no error is raised, the
\* full report is the raw text, every field found by the pattern with a
\* non-empty value takes that value, and a field not found or found with an
\* empty value takes its fallback: a fixed string, or for insights the first
\* 500 characters of the raw text.
C10_NonEmptyFoundFieldTakesExtractedValue ==
    (Normalized /\ ~IsJson(respText)) =>
        /\ ~normOut.threw
        /\ normOut.analysis["fullReport"] = StringOf(respText)
        /\ \A f \in TextFields :
               IF PatternFound(respText, f) /\ FirstPatternValue(respText, f).text # <<>>
               THEN normOut.analysis[f] = FirstPatternValue(respText, f)
               ELSE IF f = "insights"
                    THEN normOut.analysis[f] = StringOf(Substring(respText, 500))
                    ELSE normOut.analysis[f] = TextPlaceholder(f)

C10_Witness ==
    /\ Normalized
    /\ ~IsJson(respText)
    /\ PatternFound(respText, "summary")
    /\ normOut.analysis["summary"] = ContentOf("the value")
    /\ ~PatternFound(respText, "insights")
    /\ normOut.analysis["insights"] = StringOf(respText)
    /\ normOut.analysis["fullReport"] = StringOf(respText)

-----------------------------------------------------------------------------
(* Properties of the provider dispatch inside analyzeDocument.             *)

\* C11: a provider reply with HTTP success, whatever its shape, does not make
\* the analysis fail: no error is raised for it and a section is built from it.
C11_ShapeRecovered ==
    \A r \in Runs :
        \A k \in 1..Len(replies[r]) :
            replies[r][k].status = 200 =>
                /\ Len(sections[r]) >= k
                /\ (k = Len(replies[r])) => (raised[r] = <<>> /\ outcome[r].kind # "error")

\* C14 as stated: a successful analysis has sent exactly one request and holds
\* exactly one section for every prompt field of its template, the custom
\* prompts included.
C14_SectionPerPromptField ==
    \A r \in Runs :
        pc[r] = "done" =>
            \A k \in 1..Len(tmpl[r].prompts) :
                LET key == tmpl[r].prompts[k].key
                IN  /\ Cardinality({ m \in 1..Len(sent[r]) : sent[r][m].key = key }) = 1
                    /\ Cardinality({ m \in 1..Len(outcome[r].sections) :
                                       outcome[r].sections[m].key = key }) = 1

-----------------------------------------------------------------------------
(* Properties of one provider call.                                        *)

Settled == dPc \in {"threw", "returned", "section"}

DeepSeekUrl == "https://api.deepseek.com/v1/chat/completions"

ErrorPrefix(prov) == IF prov = "deepseek" THEN "DeepSeek API error: " ELSE "Gemini API error: "

\* what the response says about the failure: its status text, its status
\* code, and the message fields of its JSON body
FailureTexts(rep) ==
    {rep.statusText, "HTTP " \o ToString(rep.status)}
        \cup (IF rep.json THEN {rep.errorMessage, rep.message} \ {"none"} ELSE {})

Present(field) == field \notin {"none", ""}

\* the first text present in the order error.message, message, status text,
\* status code
PrecedencePick(rep) ==
    LET body == IF rep.json THEN <<rep.errorMessage, rep.message>> ELSE <<>>
        candidates == body \o <<rep.statusText, "HTTP " \o ToString(rep.status)>>
        first == CHOOSE k \in 1..Len(candidates) :
                     Present(candidates[k]) /\ \A j \in 1..(k - 1) : ~Present(candidates[j])
    IN  candidates[first]

\* C13 as stated: at every call site a failed Gemini call throws "Gemini API
\* error: " followed by the body's error.message if present, else the body's
\* message, else the status text, else the status code.
C13_GeminiErrorPrecedence ==
    (dPc = "threw" /\ dProvider = "gemini" /\ dResp.kind = "http") =>
        dOut.error.message = <<"Gemini API error: ", PrecedencePick(dResp)>>

-----------------------------------------------------------------------------
(* Properties of analyzeSentiment.                                         *)

SentimentDone == senPc \in {"done", "returned"}

RatioAdd(a, b) == Ratio(a.num * b.den + b.num * a.den, a.den * b.den)

RatioEqual(a, b) == a.num * b.den = b.num * a.den

SenWords == SplitWhitespace(ToLowerCase(senIn))

\* the words of the input that contain a word of the lexicon
Matching(lexicon) ==
    { k \in 1..Len(SenWords) :
        \E j \in 1..Len(lexicon) :
            \E i \in 1..Len(SenWords[k]) :
                /\ i + Len(lexicon[j]) - 1 <= Len(SenWords[k])
                /\ \A m \in 1..Len(lexicon[j]) : SenWords[k][i + m - 1] = lexicon[j][m] }

\* C15: the three fractions of the sentiment distribution add up to 1.
C15_FractionsSumToOne ==
    SentimentDone =>
        LET d == senOut.sentiment_distribution
        IN  /\ d.positive.den > 0 /\ d.negative.den > 0 /\ d.neutral.den > 0
            /\ RatioEqual(RatioAdd(RatioAdd(d.positive, d.negative), d.neutral), Ratio(1, 1))

C15_Witness ==
    /\ senPc = "done"
    /\ Matching(PositiveWords) \cap Matching(NegativeWords) # {}
    /\ RatioGreater(senOut.sentiment_distribution.positive, senOut.sentiment_distribution.negative)
    /\ RatioGreater(senOut.sentiment_distribution.negative, Ratio(0, 1))

\* C16: the positive and the negative ratio are the match counts over their
\* sum (1/2 each when there is no match), and the label is positive when the
\* positive ratio exceeds 0.6, else negative when the negative ratio exceeds
\* 0.6, else mixed when both exceed 0.3, else neutral.
C16_LabelByThresholds ==
    SentimentDone =>
        LET positives == Cardinality(Matching(PositiveWords))
            negatives == Cardinality(Matching(NegativeWords))
            p == senOut.sentiment_distribution.positive
            n == senOut.sentiment_distribution.negative
        IN  /\ IF positives + negatives = 0
               THEN RatioEqual(p, Ratio(1, 2)) /\ RatioEqual(n, Ratio(1, 2))
               ELSE /\ RatioEqual(p, Ratio(positives, positives + negatives))
                    /\ RatioEqual(n, Ratio(negatives, positives + negatives))
            /\ senOut.overall_sentiment =
                   IF 10 * p.num > 6 * p.den THEN "positive"
                   ELSE IF 10 * n.num > 6 * n.den THEN "negative"
                   ELSE IF 10 * p.num > 3 * p.den /\ 10 * n.num > 3 * n.den THEN "mixed"
                   ELSE "neutral"

C16_Witness ==
    /\ senPc = "done"
    /\ Cardinality(Matching(PositiveWords)) = 3
    /\ Cardinality(Matching(NegativeWords)) = 2
    /\ senOut.overall_sentiment = "mixed"

\* C17 as stated: the project document is classified as mixed.
C17_ProjectDocumentIsMixed ==
    (SentimentDone /\ senIn = ProjectDocument) => senOut.overall_sentiment = "mixed"

\* C17 amended: the project document is classified as positive, with three
\* positive matches (great, success, excellent) against one negative (risks.):
\* the ratios are 3/4 and 1/4.
C17_ProjectDocumentIsPositive ==
    (SentimentDone /\ senIn = ProjectDocument) =>
        /\ senOut.overall_sentiment = "positive"
        /\ RatioEqual(senOut.sentiment_distribution.positive, Ratio(3, 4))
        /\ RatioEqual(senOut.sentiment_distribution.negative, Ratio(1, 4))

C17_Witness ==
    /\ senPc = "done"
    /\ senIn = ProjectDocument
    /\ senOut.emotional_tone = <<"optimistic">>

-----------------------------------------------------------------------------
(* Properties of extractTopics.                                            *)

TopTokens == MatchWords(ToLowerCase(topIn))

Occurrences(word) == Cardinality({ k \in 1..Len(TopTokens) : TopTokens[k] = word })

\* C18 as stated: at most 10 topics, each a lowercased token longer than 3
\* characters, in non-increasing order of frequency; the frequency is the
\* number of occurrences of the word among the tokens, the relevance is the
\* frequency over the number of tokens, and no token longer than 3 characters
\* that is left out occurs more often than a returned topic.
C18_TopicsRanked ==
    topPc \in {"done", "returned"} =>
        /\ Len(topOut) <= 10
        /\ \A k \in 1..Len(topOut) :
               /\ Len(topOut[k].topic) > 3
               /\ topOut[k].topic \in Range(TopTokens)
               /\ topOut[k].frequency.isNumber
               /\ topOut[k].frequency.n = Occurrences(topOut[k].topic)
               /\ topOut[k].relevance.isNumber
               /\ topOut[k].relevance.num * Len(TopTokens) =
                      Occurrences(topOut[k].topic) * topOut[k].relevance.den
        /\ \A k \in 1..(Len(topOut) - 1) : topOut[k].frequency.n >= topOut[k + 1].frequency.n
        /\ \A w \in Range(TopTokens) :
               (Len(w) > 3 /\ \A k \in 1..Len(topOut) : topOut[k].topic # w) =>
                   \A k \in 1..Len(topOut) : Occurrences(w) <= topOut[k].frequency.n

\* the position of the first occurrence of a word among the tokens
FirstSeen(word) ==
    CHOOSE k \in 1..Len(TopTokens) :
        TopTokens[k] = word /\ \A m \in 1..(k - 1) : TopTokens[m] # word

SameFrequency(f, g) == f.isNumber /\ g.isNumber /\ f.n = g.n

\* C26 as stated: of two returned topics with the same frequency the one whose
\* word is seen first in the text comes first, numeric tokens included, and a
\* candidate left out at the cut-off was first seen after every returned
\* topic of its frequency
C26_TiesKeepFirstSeenOrder ==
    topPc \in {"done", "returned"} =>
        /\ \A j, k \in 1..Len(topOut) :
              (j < k /\ SameFrequency(topOut[j].frequency, topOut[k].frequency)) =>
                  FirstSeen(topOut[j].topic) < FirstSeen(topOut[k].topic)
        /\ \A w \in Range(TopTokens) :
              (Len(w) > 3 /\ \A k \in 1..Len(topOut) : topOut[k].topic # w) =>
                  \A k \in 1..Len(topOut) :
                      (topOut[k].frequency.isNumber
                          /\ topOut[k].frequency.n = Occurrences(w)) =>
                          FirstSeen(topOut[k].topic) < FirstSeen(w)

-----------------------------------------------------------------------------
(* Properties of extractEntities.                                          *)

EntitiesOfType(type) == { k \in 1..Len(entOut) : entOut[k].type = type }

TextsOfType(type) == { entOut[k].text : k \in EntitiesOfType(type) }

\* C19 as stated: the revenue document yields exactly three entities: the
\* percentage 12.5%, the money amount $1,250.00 and the date 03/14/2024.
C19_RevenueEntities ==
    (entPc \in {"done", "returned"} /\ entIn = RevenueDocument) =>
        /\ Len(entOut) = 3
        /\ Cardinality(EntitiesOfType("percentage")) = 1
        /\ TextsOfType("percentage") = {<<49, 50, 46, 53, 37>>}
        /\ Cardinality(EntitiesOfType("money")) = 1
        /\ TextsOfType("money") = {<<36, 49, 44, 50, 53, 48, 46, 48, 48>>}
        /\ Cardinality(EntitiesOfType("date")) = 1
        /\ TextsOfType("date") = {<<48, 51, 47, 49, 52, 47, 50, 48, 50, 52>>}

-----------------------------------------------------------------------------
(* Properties of calculateReadabilityScore.                                *)

\* C20 as stated: the score of a non-empty text lies in [0, 100]; the score
\* of the empty text, and of a text without a word, is 0.
C20_ReadabilityBounds ==
    readPc \in {"done", "returned"} =>
        /\ readOut.den > 0
        /\ readOut.num >= 0
        /\ readOut.num <= 100 * readOut.den
        /\ readIn = <<>> => readOut.num = 0
        /\ Trim(readIn) = <<>> => readOut.num = 0

-----------------------------------------------------------------------------
(* Section word counts.                                                    *)

\* the number of maximal runs of non-whitespace characters of a text
WordsOf(s) ==
    Cardinality({ k \in 1..Len(s) :
                     s[k] \notin Whitespace /\ (k = 1 \/ s[k - 1] \in Whitespace) })

\* C21: in every returned result, each section's word_count is the number of
\* whitespace-separated words of that section's content, 0 for an empty one
C21_SectionWordCount ==
    \A r \in Runs :
        outcome[r].kind = "result" =>
            \A k \in 1..Len(outcome[r].sections) :
                outcome[r].sections[k].word_count = WordsOf(outcome[r].sections[k].content)

\* the positions at which the regex of a type matches, in order
RECURSIVE MatchPositions(_, _, _)
MatchPositions(type, s, p) ==
    IF p > Len(s) THEN <<>>
    ELSE LET n == MatchLength(type, s, p)
         IN  IF n > 0 THEN <<p>> \o MatchPositions(type, s, p + n)
             ELSE MatchPositions(type, s, p + 1)

\* the positions of the matches the entities were made from, in the order of
\* the entities: dates, percentages, amounts
OwnPositions ==
    MatchPositions("date", entIn, 1) \o MatchPositions("percentage", entIn, 1)
        \o MatchPositions("money", entIn, 1)

\* the window of 50 characters on both sides of the occurrence at position p
Window(s, p, n) ==
    SubSeq(s, IF p - ContextRadius < 1 THEN 1 ELSE p - ContextRadius,
              IF p + n - 1 + ContextRadius > Len(s) THEN Len(s) ELSE p + n - 1 + ContextRadius)

\* C27 as stated: the context of every entity is the content from 50
\* characters before the entity's own occurrence to 50 characters after it
C27_ContextAroundOwnOccurrence ==
    entPc \in {"done", "returned"} =>
        /\ Len(entOut) = Len(OwnPositions)
        /\ \A k \in 1..Len(entOut) :
              entOut[k].context = Window(entIn, OwnPositions[k], Len(entOut[k].text))

-----------------------------------------------------------------------------
(* Properties of the compiled result.                                      *)

\* a fraction between 0 and 1
InUnit(x) == x.den > 0 /\ 0 <= x.num /\ x.num <= x.den

\* a number of hundredths between 0 and 1
HundredthsInUnit(c) == 0 <= c /\ c <= 100

RECURSIVE SumOver(_, _)
SumOver(secs, k) == IF k = 0 THEN 0 ELSE secs[k].confidence + SumOver(secs, k - 1)

\* C22: in a returned result every confidence lies in [0,1]: each section's,
\* each entity's, the sentiment's and the overall confidence_score, which is
\* the mean of the section confidences
C22_ConfidencesInUnit ==
    resPc = "returned" =>
        /\ \A k \in 1..Len(resOut.sections) : HundredthsInUnit(resOut.sections[k].confidence)
        /\ \A k \in 1..Len(resOut.key_entities) :
              HundredthsInUnit(resOut.key_entities[k].confidence)
        /\ InUnit(resOut.sentiment_analysis.confidence)
        /\ InUnit(resOut.confidence_score)
        /\ resOut.confidence_score.num * 100 * Len(resOut.sections)
               = resOut.confidence_score.den * SumOver(resOut.sections, Len(resOut.sections))

\* a returned result with sections, entities of two kinds and a sentiment
\* confidence strictly inside the interval
C22_Witness ==
    /\ resPc = "returned"
    /\ Len(resOut.sections) = 4
    /\ \E k, m \in 1..Len(resOut.key_entities) :
          resOut.key_entities[k].confidence = 80 /\ resOut.key_entities[m].confidence = 90
    /\ resOut.sentiment_analysis.confidence.num * 4 = resOut.sentiment_analysis.confidence.den * 3

-----------------------------------------------------------------------------
(* Properties of the template getters.                                     *)

RECURSIVE Reverse(_)
Reverse(q) == IF q = <<>> THEN <<>> ELSE Append(Reverse(Tail(q)), Head(q))

WithId(id) == { k \in 1..Len(templates) : templates[k].id = id }

\* C23: getTemplate returns the catalog template whose id is the argument when
\* there is one (a business template for "business-report"), undefined
\* otherwise (for "nonexistent"); ids are unique in the catalog, so a catalog
\* in another order gives the same answer
C23_TemplateLookup ==
    /\ \A j, k \in 1..Len(templates) : templates[j].id = templates[k].id => j = k
    /\ getPc = "getTemplate" =>
          /\ \A k \in WithId(getArg) : getOut = [kind |-> "template", value |-> <<templates[k]>>]
          /\ WithId(getArg) = {} => getOut.kind = "undefined"
          /\ getOut.kind \in {"template", "undefined"}
          /\ getArg = "business-report" =>
                getOut.kind = "template" /\ getOut.value[1].category = "business"
          /\ getArg = "nonexistent" => getOut.kind = "undefined"
          /\ getOut = GetTemplate(Reverse(templates), getArg)

\* the lookup of a catalog id that is not the first of its category
C23_Witness ==
    /\ getPc = "getTemplate"
    /\ getArg = "market-analysis"
    /\ getOut.kind = "template"
    /\ getOut.value[1].id = "market-analysis"

-----------------------------------------------------------------------------
(* Properties of the progress reports.                                     *)

\* the reports performAIAnalysis makes: those of stage ai_analysis after the
\* one analyzeDocument makes on entering the stage
LoopReports(r) ==
    LET ai == SelectSeq(log[r], LAMBDA rep : rep.stage = "ai_analysis")
    IN  IF ai = <<>> THEN <<>> ELSE Tail(ai)

\* the position, counted from 0, of a key among the template's prompt fields
FieldIndex(r, key) ==
    (CHOOSE k \in 1..Len(tmpl[r].prompts) : tmpl[r].prompts[k].key = key) - 1

\* C24: the progress values of a run lie in 0..100 and never decrease; the
\* value reported before the provider call of the i-th of the n prompt fields
\* is 40 + 40 * i / n, between 40 and 80
C24_ProgressMonotone ==
    \A r \in Runs :
        LET lg == log[r]
            n == Len(tmpl[r].prompts)
            loop == LoopReports(r)
        IN  /\ \A k \in 1..Len(lg) : 0 <= lg[k].progress /\ lg[k].progress <= 100
            /\ \A k \in 1..(Len(lg) - 1) : lg[k].progress <= lg[k + 1].progress
            /\ Len(loop) = Len(sent[r])
            /\ \A m \in 1..Len(loop) :
                  LET i == FieldIndex(r, sent[r][m].key)
                  IN  /\ n * loop[m].progress = 40 * n + 40 * i
                      /\ 40 <= loop[m].progress /\ loop[m].progress <= 80
                      /\ m > 1 => loop[m - 1].progress < loop[m].progress

\* a finished run over five prompt fields of which the first is skipped: the
\* first provider call is reported at 48, the last at 72
C24_Witness ==
    \E r \in Runs :
        /\ pc[r] = "done"
        /\ Len(tmpl[r].prompts) = 5
        /\ LoopReports(r)[1].progress = 48
        /\ Last(LoopReports(r)).progress = 72
        /\ Last(log[r]).progress = 100

-----------------------------------------------------------------------------
(* Properties of the order of the provider calls.                          *)

IsPrefix(a, b) == Len(a) <= Len(b) /\ a = SubSeq(b, 1, Len(a))

SentKeys(r) == [k \in 1..Len(sent[r]) |-> sent[r][k].key]

\* C25: the provider calls are issued, and the sections appear, in the declared
\* order of the template's prompt keys (summary, insights, recommendations,
\* technical), and a call is issued only when every earlier one has returned
C25_DeclaredOrder ==
    \A r \in Runs :
        /\ IsPrefix(SentKeys(r), StringKeys(tmpl[r]))
        /\ IsPrefix(SectionKeys(sections[r]), StringKeys(tmpl[r]))
        /\ Len(sent[r]) > 0 => Len(replies[r]) >= Len(sent[r]) - 1
        /\ Len(sections[r]) <= Len(replies[r])
        /\ outcome[r].kind = "result" =>
              /\ SectionKeys(outcome[r].sections) = StringKeys(tmpl[r])
              /\ tmpl[r] = Catalog[1] =>
                    SectionKeys(outcome[r].sections)
                        = <<"summary", "insights", "recommendations", "technical">>

\* the third call of a catalog template is pending: two sections are there,
\* in the declared order
C25_Witness ==
    \E r \in Runs :
        /\ pc[r] = "await"
        /\ tmpl[r] = Catalog[1]
        /\ SentKeys(r) = <<"summary", "insights", "recommendations">>
        /\ SectionKeys(sections[r]) = <<"summary", "insights">>

-----------------------------------------------------------------------------
(* Properties of the preprocessing.                                        *)

\* C29 as stated: the content handed to the provider calls and to the signal
\* extractors after the file-type preprocessing is never the empty string
C29_HandedContentNotEmpty ==
    \A k \in 1..Len(preHanded) : preHanded[k].content # <<>>

-----------------------------------------------------------------------------
(* Properties of the analyze screen.                                       *)

\* what analyzeDocument rejects as empty, whoever calls it
AnalysisRejects(text) == IsEmpty(SanitizeContent(text))

\* C30 as stated: the persistence steps of startAnalysis (saving the
\* document, saving the analysis and its sections) never fail the analysis:
\* a run ends in the error stage only if analyzeDocument threw or rejects the
\* document; whenever analyzeDocument returned, its result is set for display
\* and the run finishes in the complete stage; isAnalyzing is false once
\* startAnalysis has finished or returned; without a user no insert is sent
C30_PersistenceNeverFailsAnalysis ==
    /\ scrPc \in {"finished", "returned"} => isAnalyzing = FALSE
    /\ callOutcome = "result" =>
          analysisResult = Result(<<>>, PreprocessDocument(SanitizeContent(document.content)))
    /\ analysisProgress.stage = "error" =>
          callOutcome = "thrown" \/ AnalysisRejects(document.content)
    /\ (scrPc = "finished" /\ callOutcome = "result") =>
          analysisProgress = Report("complete", 100)
    /\ user = NoUser => writes = <<>> /\ failed = <<>>

====
